---- MODULE Spec2Model ----
(***************************************************************************)
(* A state-machine model of python-usbtmc's Instrument session             *)
(* (src/usbtmc/usbtmc.py): the session lifecycle (open / close), the       *)
(* bulk-OUT and bulk-IN engines (write_raw / read_raw), the control        *)
(* sub-protocols (clear, get_capabilities, abort bulk in/out) and the      *)
(* USB488 status byte.  The USB stack and the device are the environment:  *)
(* every transfer's outcome is a nondeterministic choice.                  *)
(***************************************************************************)
EXTENDS Integers, Sequences, FiniteSets, TLC

(***************************************************************************)
(* Bounds of the model.                                                    *)
(***************************************************************************)
\* longest payload handed to write_raw
MaxLen == 3
\* largest max_transfer_size a session is configured with
MaxMts == 2
\* PENDING answers the log keeps apart in one polling loop
MaxPolls == 2
\* bulk-IN transfers a device answers without ending the message
MaxIters == 2
\* public calls of a run whose specification bounds them
MaxCalls == 3
\* the most data bytes of an IEEE 488.2 block a device answers
MaxBlock == 2
\* the small vendor and product ids, and the longest serial number
MaxId == 11
MaxSerial == 2

(***************************************************************************)
(* Program constants.                                                      *)
(***************************************************************************)
USBTMC_bInterfaceClass == 254
USBTMC_bInterfaceSubClass == 3
USB488_bInterfaceProtocol == 1
USBTMC_MSGID_DEV_DEP_MSG_OUT == 1
USBTMC_MSGID_DEV_DEP_MSG_IN == 2
USB488_MSGID_TRIGGER == 128
USBTMC_STATUS_SUCCESS == 1
USBTMC_STATUS_PENDING == 2
USBTMC_STATUS_FAILED == 128
USBTMC_REQUEST_INITIATE_ABORT_BULK_OUT == 1
USBTMC_REQUEST_CHECK_ABORT_BULK_OUT_STATUS == 2
USBTMC_REQUEST_INITIATE_ABORT_BULK_IN == 3
USBTMC_REQUEST_CHECK_ABORT_BULK_IN_STATUS == 4
USBTMC_REQUEST_INITIATE_CLEAR == 5
USBTMC_REQUEST_CHECK_CLEAR_STATUS == 6
USBTMC_REQUEST_GET_CAPABILITIES == 7
USBTMC_REQUEST_INDICATOR_PULSE == 64
USB488_READ_STATUS_BYTE == 128
USBTMC_HEADER_SIZE == 12
ADVANTEST_LOCK_REQUEST == 160
\* errno of a USB timeout, as write_raw and read_raw test it
ETIMEDOUT == 110
\* idVendor of Advantest/ADCMT, idVendor and idProducts of the Rigol quirk
ADVANTEST_VID == 4916
RIGOL_VID == 6833
RIGOL_QUIRK_PIDS == {1230, 1416}
RIGOL_IEEE_PID == 1230
ADVANTEST_MAX_TRANSFER == 63

\* the errno of a USBError that is no timeout
EIO == 5
\* the status bytes a device of the model answers a control request with
Statuses == {USBTMC_STATUS_SUCCESS, USBTMC_STATUS_PENDING, USBTMC_STATUS_FAILED}

(***************************************************************************)
(* Helpers.                                                                *)
(***************************************************************************)
Min(S) == CHOOSE x \in S : \A y \in S : x <= y
Max(S) == CHOOSE x \in S : \A y \in S : x >= y
Range(s) == {s[i] : i \in 1..Len(s)}
\* s[a:b] of Python, 0-based, for 0 <= a
Slice(s, a, b) == SubSeq(s, a + 1, IF b < Len(s) THEN b ELSE Len(s))
Zeros(n) == [i \in 1..n |-> 0]
RECURSIVE Cat(_)
Cat(ss) == IF ss = <<>> THEN <<>> ELSE Head(ss) \o Cat(Tail(ss))
\* struct.pack('<L', n)
LE32(n) == <<n % 256, (n \div 256) % 256, (n \div 65536) % 256, (n \div 16777216) % 256>>
\* struct.unpack('<L', b)
UnLE32(b) == b[1] + 256 * b[2] + 65536 * b[3] + 16777216 * b[4]
\* ~b & 0xFF on one byte
Inv8(b) == 255 - (b % 256)
Bit(b, k) == (b \div k) % 2 = 1

(***************************************************************************)
(* USB descriptors of the devices of the model.                            *)
(***************************************************************************)
Ep(t, d, a) == [type |-> t, dir |-> d, bEndpointAddress |-> a]
Iface(n, c, s, p, e) ==
    [bInterfaceNumber |-> n, bInterfaceClass |-> c, bInterfaceSubClass |-> s,
     bInterfaceProtocol |-> p, index |-> n, eps |-> e]
Cfg(v, ifs) == [bConfigurationValue |-> v, ifaces |-> ifs]
Dev(vid, pid, cfgs, b4, b5) ==
    [idVendor |-> vid, idProduct |-> pid, cfgs |-> cfgs, caps4 |-> b4, caps5 |-> b5]

BulkEps == <<Ep("bulk", "out", 1), Ep("bulk", "in", 129)>>
IntrEps == BulkEps \o <<Ep("intr", "in", 130)>>
TmcIface(n, p, e) == Iface(n, USBTMC_bInterfaceClass, USBTMC_bInterfaceSubClass, p, e)
\* a USBTMC instrument, one configuration, one interface
GenericDev == Dev(6832, 1, <<Cfg(1, <<TmcIface(0, 0, BulkEps)>>)>>, 4, 1)
\* a USB488 instrument with an interrupt-in endpoint
Usb488Dev == Dev(6832, 2, <<Cfg(1, <<TmcIface(0, 1, IntrEps)>>)>>, 7, 1)
\* a USB488 instrument without interrupt-in endpoint
Usb488NoIntrDev == Dev(6832, 3, <<Cfg(1, <<TmcIface(0, 1, BulkEps)>>)>>, 5, 0)
\* a composite device: the instrument in configuration 1, two other
\* interfaces in configuration 2
TwoCfgDev ==
    Dev(6832, 4, <<Cfg(1, <<TmcIface(0, 0, BulkEps)>>),
                   Cfg(2, <<Iface(0, 255, 0, 0, <<>>), Iface(1, 3, 0, 0, <<>>)>>)>>, 4, 0)
\* a USBTMC interface that lacks its bulk-IN endpoint
NoBulkInDev == Dev(6832, 5, <<Cfg(1, <<TmcIface(0, 0, <<Ep("bulk", "out", 1)>>)>>)>>, 4, 0)
\* an Advantest/ADCMT instrument: its interface is vendor-specific
AdvantestDev == Dev(ADVANTEST_VID, 1, <<Cfg(1, <<Iface(0, 255, 0, 0, BulkEps)>>)>>, 4, 0)
\* an interface with two endpoints of each kind
ManyEpsDev ==
    Dev(6832, 7, <<Cfg(1, <<TmcIface(0, 1, IntrEps \o <<Ep("bulk", "out", 3), Ep("bulk", "in", 131),
                                                         Ep("intr", "in", 132)>>)>>)>>, 7, 1)
\* the instrument is the second interface of the only configuration
SecondIfaceDev ==
    Dev(6832, 8, <<Cfg(1, <<Iface(0, 3, 0, 0, <<>>), TmcIface(1, 0, BulkEps),
                            TmcIface(2, 0, BulkEps)>>)>>, 4, 0)
\* the instrument is in the second configuration
LateTmcDev ==
    Dev(6832, 9, <<Cfg(1, <<Iface(0, 3, 0, 0, <<>>)>>), Cfg(2, <<TmcIface(0, 0, BulkEps)>>)>>, 4, 0)
\* a Rigol instrument whose answers are IEEE 488.2 blocks with a wrong
\* TransferSize in the header of the first packet and no header afterwards
RigolDev == Dev(RIGOL_VID, RIGOL_IEEE_PID, <<Cfg(1, <<TmcIface(0, 0, BulkEps)>>)>>, 4, 0)
\* no USBTMC interface at all
NotTmcDev == Dev(6832, 6, <<Cfg(1, <<Iface(0, 8, 6, 80, BulkEps)>>)>>, 0, 0)

VARIABLES
    self,     \* the Instrument's attributes
    usb,      \* the environment: device descriptors, kernel drivers, active configuration
    pc,       \* the position of the running call ("idle": none is running)
    stack,    \* the positions the running call returns to
    op,       \* the locals of the running call
    wire,     \* the USB operations of the running public call, in order
    result,   \* how the last public call ended
    hist      \* history: what earlier calls sent and recorded

vars == <<self, usb, pc, stack, op, wire, result, hist>>

(***************************************************************************)
(* Instrument.__init__                                                     *)
(***************************************************************************)
InitSelf(mts) ==
    [cfg |-> 0, iface |-> 0, old_cfg |-> 0, term_char |-> -1,
     bcdUSBTMC |-> 0, support_pulse |-> FALSE, support_talk_only |-> FALSE,
     support_listen_only |-> FALSE, support_term_char |-> FALSE,
     bcdUSB488 |-> 0, support_USB4882 |-> FALSE, support_remote_local |-> FALSE,
     support_trigger |-> FALSE, support_scpi |-> FALSE, support_SR |-> FALSE,
     support_RL |-> FALSE, support_DT |-> FALSE,
     max_transfer_size |-> mts,
     bulk_in_ep |-> 0, bulk_out_ep |-> 0, interrupt_in_ep |-> 0,
     last_btag |-> 0, last_rstb_btag |-> 0,
     connected |-> FALSE, reattach |-> <<>>,
     advantest_quirk |-> FALSE, advantest_locked |-> FALSE,
     rigol_quirk |-> FALSE, rigol_quirk_ieee_block |-> FALSE]

\* the locals of a call; every call starts from these
NoOp ==
    [name |-> "none", data |-> <<>>, num |-> 0, offset |-> 0, eom |-> FALSE,
     read_len |-> 0, read_data |-> <<>>, transfer_size |-> 0, iters |-> 0,
     b0 |-> 0, polls |-> 0, tick |-> 0, rstb_btag |-> 0, was_locked |-> FALSE,
     ask_num |-> -1, was_connected |-> FALSE, given |-> -1,
     exc |-> [type |-> "none", errno |-> 0, origin |-> "none"]]

NoResult == [op |-> "none", status |-> "none", errno |-> 0, origin |-> "none", value |-> <<>>]

InitHist ==
    [sent_btag |-> 0, prev_btag |-> 0, calls |-> 0,
     open_clear |-> FALSE, open_caps |-> FALSE,
     survived |-> 0, late |-> FALSE,
     closed |-> [reattach |-> <<>>, changed |-> FALSE],
     written |-> [data |-> <<>>, call |-> 0]]

\* the environment of one run: the device, the interfaces a kernel driver is
\* bound to, the active configuration (0: none set), whether the platform is
\* POSIX, the faults the USB stack and the device may produce, whether the
\* device is stuck (it answers every abort status poll with PENDING), the
\* bytes the caller's payloads are made of, and the memory of an echo device
\* ("echo" among the faults): the chunks of the message it is receiving, the
\* last message it received whole, and how much of it it has sent back
NoEcho == [rx |-> <<>>, msg |-> <<>>, pos |-> 0]
Env(dev, kdrv, act, faults, stuck, bytes) ==
    [dev |-> dev, kdrv |-> kdrv, active_cfg |-> act, posix |-> TRUE,
     faults |-> faults, stuck |-> stuck, bytes |-> bytes, echo |-> NoEcho]

InitWith(devs, mtss, kdrvs, acts, faultss, stucks, bytes) ==
    /\ \E d \in devs, k \in kdrvs, a \in acts, f \in faultss, s \in stucks :
           usb = Env(d, k, a, f, s, bytes)
    /\ \E m \in mtss : self = InitSelf(m)
    /\ pc = "idle"
    /\ stack = <<>>
    /\ op = NoOp
    /\ wire = <<>>
    /\ result = NoResult
    /\ hist = InitHist


(***************************************************************************)
(* The environment's answers.                                              *)
(***************************************************************************)
\* one USB operation of the log: its kind, bRequest, wValue (or the
\* interface number), wIndex, the bytes written or read, and its outcome
\* (err: 0 or the errno of the USBError raised, st: the status byte answered)
Ev(kind, req, val, idx, data, o) ==
    [kind |-> kind, req |-> req, val |-> val, idx |-> idx, data |-> data,
     err |-> o.err, st |-> o.st]
Ok == [err |-> 0, st |-> 0]
Answer(st) == [err |-> 0, st |-> st]
Failure(errno) == [err |-> errno, st |-> 0]
\* a transfer that answers no status byte: it succeeds, or raises a USBError
\* when the run's environment produces faults of this kind
Outcomes(fault) ==
    {Ok} \cup (IF fault \in usb.faults THEN {Failure(EIO)} ELSE {})
\* a bulk transfer: it succeeds, times out, or fails with another errno
BulkOutcomes ==
    {Ok} \cup (IF "timeout" \in usb.faults THEN {Failure(ETIMEDOUT)} ELSE {})
         \cup (IF "eio" \in usb.faults THEN {Failure(EIO)} ELSE {})
\* a control transfer answering a status byte
StatusOutcomes(fault) ==
    {Answer(USBTMC_STATUS_SUCCESS)}
    \cup (IF fault \in usb.faults
          THEN {Answer(USBTMC_STATUS_FAILED), Failure(EIO)}
          ELSE {})
\* a CHECK_*_STATUS poll: a device answers PENDING a bounded number of times
\* unless it is stuck, and a stuck device answers nothing else
PollOutcomes(fault, canStick) ==
    IF canStick /\ usb.stuck THEN {Answer(USBTMC_STATUS_PENDING)}
    ELSE StatusOutcomes(fault)
         \cup (IF "pending" \in usb.faults /\ op.polls < MaxPolls
               THEN {Answer(USBTMC_STATUS_PENDING)} ELSE {})

(***************************************************************************)
(* Calls, returns and exceptions.                                          *)
(***************************************************************************)
Exc(t, errno, origin) == [type |-> t, errno |-> errno, origin |-> origin]
USBError(o, origin) == Exc("USBError", o.err, origin)
UsbtmcException(msg) == Exc("UsbtmcException", 0, msg)

\* an exception no handler of the running call catches reaches the caller
\* of the public operation, after the "finally" of ask when the call is
\* inside its "try"; sys.exit ends the program
InsideAsk == \E i \in 1..Len(stack) : stack[i] = "ask_finally"
Raise(e) ==
    /\ pc' = IF InsideAsk THEN "ask_finally"
             ELSE IF e.type = "SystemExit" THEN "exit" ELSE "idle"
    /\ stack' = <<>>
    /\ result' = [op |-> op.name, status |-> e.type, errno |-> e.errno,
                  origin |-> e.origin, value |-> <<>>]

\* return v: to the position on top of the stack, or to the caller of the
\* public operation
Return(v) ==
    IF stack = <<>>
    THEN /\ pc' = "idle"
         /\ stack' = <<>>
         /\ result' = [op |-> op.name, status |-> "ok", errno |-> 0,
                       origin |-> "none", value |-> v]
    ELSE /\ pc' = Head(stack)
         /\ stack' = Tail(stack)
         /\ UNCHANGED result

\* a public operation starts: "if not self.connected: self.open()" first,
\* then its body at `label`
Counted(h) == [h EXCEPT !.calls = IF @ < MaxCalls THEN @ + 1 ELSE @]
\* a start that goes to the body whether or not the session is connected
Call_direct(name, label, locals) ==
    /\ pc = "idle"
    /\ hist' = Counted(hist)
    /\ op' = [locals EXCEPT !.name = name]
    /\ wire' = <<>>
    /\ result' = NoResult
    /\ pc' = label
    /\ stack' = <<>>

Call(name, label, locals) ==
    /\ pc = "idle"
    /\ hist' = Counted(hist)
    /\ op' = [locals EXCEPT !.name = name]
    /\ wire' = <<>>
    /\ result' = NoResult
    /\ IF self.connected
       THEN pc' = label /\ stack' = <<>>
       ELSE pc' = "open" /\ stack' = <<label>>

(***************************************************************************)
(* Instrument.open                                                         *)
(***************************************************************************)
IsTmc(i) ==
    /\ i.bInterfaceClass = USBTMC_bInterfaceClass
    /\ i.bInterfaceSubClass = USBTMC_bInterfaceSubClass

\* "find first USBTMC interface": <<configuration, interface>> as indexes
\* (0: none).  The outer loop ends after its first configuration whether or
\* not the inner loop selected an interface.
FindInterface(dev) ==
    IF dev.cfgs = <<>> THEN <<0, 0>>
    ELSE LET ifs == dev.cfgs[1].ifaces
             hits == {i \in 1..Len(ifs) : IsTmc(ifs[i]) \/ dev.idVendor = ADVANTEST_VID}
         IN IF hits = {} THEN <<0, 0>> ELSE <<1, Min(hits)>>

\* device.get_active_configuration(): the index of the active configuration,
\* 0 when none is set (the USBError open ignores)
ActiveCfg(dev, value) ==
    LET hits == {i \in 1..Len(dev.cfgs) : dev.cfgs[i].bConfigurationValue = value}
    IN IF hits = {} THEN 0 ELSE Min(hits)

\* a search that stops at the first endpoint of the kind
FindEndpoint_first(eps, t, d, prev) ==
    LET hits == {i \in 1..Len(eps) : eps[i].type = t /\ eps[i].dir = d}
    IN IF hits = {} THEN prev ELSE eps[Min(hits)].bEndpointAddress

\* "find endpoints": each matching endpoint overwrites the attribute, so the
\* last one of its kind in descriptor order stays
FindEndpoint(eps, t, d, prev) ==
    LET hits == {i \in 1..Len(eps) : eps[i].type = t /\ eps[i].dir = d}
    IN IF hits = {} THEN prev ELSE eps[Max(hits)].bEndpointAddress

IfaceNumbers(cfg) == [i \in 1..Len(cfg.ifaces) |-> cfg.ifaces[i].bInterfaceNumber]

\* the session once the interface is selected and old_cfg is read
Selected ==
    LET found == FindInterface(usb.dev)
        s1 == IF found[2] # 0
              THEN [self EXCEPT !.cfg = found[1], !.iface = found[2]] ELSE self
        act == ActiveCfg(usb.dev, usb.active_cfg)
    IN IF s1.iface # 0 /\ act # 0 THEN [s1 EXCEPT !.old_cfg = act] ELSE s1

SameCfg(s) ==
    /\ s.old_cfg # 0
    /\ usb.dev.cfgs[s.old_cfg].bConfigurationValue = usb.dev.cfgs[s.cfg].bConfigurationValue

\* _release_kernel_driver is called on these interface numbers, and detaches
\* those a kernel driver is active on
ReleaseCalls(s) ==
    IF s.iface = 0 THEN <<>>
    ELSE IF SameCfg(s) THEN <<usb.dev.cfgs[s.cfg].ifaces[s.iface].bInterfaceNumber>>
    ELSE IF s.old_cfg # 0 THEN IfaceNumbers(usb.dev.cfgs[s.old_cfg])
    ELSE <<>>
IsActive(n) == usb.posix /\ n \in usb.kdrv
Detaches(s) == SelectSeq(ReleaseCalls(s), IsActive)

DetachEvents(ns, failed) ==
    [i \in 1..Len(ns) |->
        Ev("detach", 0, ns[i], 0, <<>>, IF failed /\ i = Len(ns) THEN Failure(EIO) ELSE Ok)]

\* the quirk flags open sets from the device's ids
Quirks(s, dev) ==
    LET s1 == IF dev.idVendor = ADVANTEST_VID
              THEN [s EXCEPT !.max_transfer_size = ADVANTEST_MAX_TRANSFER,
                             !.advantest_quirk = TRUE]
              ELSE s
        s2 == IF dev.idVendor = RIGOL_VID /\ dev.idProduct \in RIGOL_QUIRK_PIDS
              THEN [s1 EXCEPT !.rigol_quirk = TRUE,
                              !.rigol_quirk_ieee_block =
                                  (s1.rigol_quirk_ieee_block \/ dev.idProduct = RIGOL_IEEE_PID)]
              ELSE s1
    IN s2

\* open marks the session connected before it clears the device and probes
\* its capabilities
MarkConnected(s) == [s EXCEPT !.connected = TRUE]

\* open() up to the call of clear(): df is the detach that fails (0: none),
\* sc and cl are the outcomes of set_configuration and claim_interface
OpenBegin ==
    /\ pc = "open"
    /\ UNCHANGED op
    /\ IF self.connected
       THEN /\ Return(<<>>)
            /\ UNCHANGED <<self, usb, wire, hist>>
       ELSE LET s == Selected
                det == Detaches(s)
            IN \E df \in 0..Len(det), sc \in Outcomes("open"), cl \in Outcomes("open") :
               /\ df # 0 => "detach" \in usb.faults
               /\ LET done == IF df = 0 THEN det ELSE SubSeq(det, 1, df)
                      gone == IF df = 0 THEN Range(det) ELSE Range(SubSeq(det, 1, df - 1))
                      s3 == [s EXCEPT !.reattach = @ \o done]
                      same == SameCfg(s)
                      cfg == usb.dev.cfgs[s.cfg]
                      eps == cfg.ifaces[s.iface].eps
                      s4 == [s3 EXCEPT
                               !.bulk_in_ep = FindEndpoint(eps, "bulk", "in", @),
                               !.bulk_out_ep = FindEndpoint(eps, "bulk", "out", @),
                               !.interrupt_in_ep = FindEndpoint(eps, "intr", "in", @)]
                      w1 == wire \o DetachEvents(done, df # 0)
                      w2 == IF same THEN w1
                            ELSE Append(w1, Ev("set_configuration", 0, cfg.bConfigurationValue, 0, <<>>, sc))
                      w3 == Append(w2, Ev("claim", 0, s.iface, 0, <<>>, cl))
                      h1 == [hist EXCEPT !.open_clear = FALSE, !.open_caps = FALSE]
                      act == IF same THEN usb.active_cfg ELSE cfg.bConfigurationValue
                  IN IF s.iface = 0
                     THEN /\ self' = s
                          /\ Raise(UsbtmcException("Not a USBTMC device"))
                          /\ UNCHANGED <<usb, wire>>
                          /\ hist' = h1
                     ELSE IF df # 0
                     THEN /\ self' = s3
                          /\ usb' = [usb EXCEPT !.kdrv = @ \ gone]
                          /\ wire' = w1
                          /\ hist' = h1
                          /\ Raise(Exc("SystemExit", 0, "detach_kernel_driver"))
                     ELSE IF ~same /\ sc.err # 0
                     THEN /\ self' = s3
                          /\ usb' = [usb EXCEPT !.kdrv = @ \ gone]
                          /\ wire' = w2
                          /\ hist' = h1
                          /\ Raise(USBError(sc, "set_configuration"))
                     ELSE IF cl.err # 0
                     THEN /\ self' = s3
                          /\ usb' = [usb EXCEPT !.kdrv = @ \ gone,
                                                !.active_cfg = act]
                          /\ wire' = w3
                          /\ hist' = h1
                          /\ Raise(USBError(cl, "claim_interface"))
                     ELSE IF s4.bulk_in_ep = 0 \/ s4.bulk_out_ep = 0
                     THEN /\ self' = s4
                          /\ usb' = [usb EXCEPT !.kdrv = @ \ gone,
                                                !.active_cfg = act]
                          /\ wire' = w3
                          /\ hist' = h1
                          /\ Raise(UsbtmcException("Invalid endpoint configuration"))
                     ELSE /\ self' = MarkConnected(Quirks(s4, usb.dev))
                          /\ usb' = [usb EXCEPT !.kdrv = @ \ gone,
                                                !.active_cfg = act]
                          /\ wire' = w3
                          /\ hist' = h1
                          /\ pc' = "clear"
                          /\ stack' = <<"open_caps">> \o stack
                          /\ UNCHANGED result


(***************************************************************************)
(* Instrument.clear                                                        *)
(***************************************************************************)
IfaceIndex == usb.dev.cfgs[self.cfg].ifaces[self.iface].index

\* one more poll of a polling loop: the log keeps the first MaxPolls PENDING
\* answers apart, later ones only flip the tick
IsPending(o) == o.err = 0 /\ o.st = USBTMC_STATUS_PENDING
Polled(o) ==
    IF IsPending(o)
    THEN [op EXCEPT !.b0 = o.st,
                    !.polls = IF @ < MaxPolls THEN @ + 1 ELSE @,
                    !.tick = IF op.polls < MaxPolls THEN @ ELSE 1 - @]
    ELSE [op EXCEPT !.b0 = o.st]
Logged(e) == IF IsPending(e) /\ op.polls >= MaxPolls THEN wire ELSE Append(wire, e)

\* INITIATE_CLEAR
\* a test that takes every status of INITIATE_CLEAR as a success
ClearStarted_any(b0) == TRUE
\* "if (b[0] == USBTMC_STATUS_SUCCESS)"
ClearStarted(b0) == b0 = USBTMC_STATUS_SUCCESS

ClearInitiate ==
    /\ pc = "clear"
    /\ UNCHANGED <<self, usb, hist>>
    /\ \E o \in StatusOutcomes("clear") :
        /\ wire' = Append(wire, Ev("ctrl", USBTMC_REQUEST_INITIATE_CLEAR, 0, IfaceIndex, <<>>, o))
        /\ op' = [op EXCEPT !.b0 = o.st, !.polls = 0, !.tick = 0]
        /\ IF o.err # 0 THEN Raise(USBError(o, "clear"))
           ELSE IF ClearStarted(o.st)
           THEN pc' = "clear_poll" /\ UNCHANGED <<stack, result>>
           ELSE Raise(UsbtmcException("Clear failed"))

\* CHECK_CLEAR_STATUS, until the status is not PENDING
ClearPoll ==
    /\ pc = "clear_poll"
    /\ UNCHANGED <<self, usb, hist>>
    /\ \E o \in PollOutcomes("clear", FALSE) :
        /\ wire' = Logged(Ev("ctrl", USBTMC_REQUEST_CHECK_CLEAR_STATUS, 0, IfaceIndex, <<>>, o))
        /\ op' = Polled(o)
        /\ IF o.err # 0 THEN Raise(USBError(o, "clear"))
           ELSE IF o.st # USBTMC_STATUS_PENDING
           THEN pc' = "clear_halt" /\ UNCHANGED <<stack, result>>
           ELSE UNCHANGED <<pc, stack, result>>

\* bulk_out_ep.clear_halt(), then clear returns
ClearHalt ==
    /\ pc = "clear_halt"
    /\ UNCHANGED <<self, usb, op>>
    /\ \E o \in Outcomes("clear") :
        /\ wire' = Append(wire, Ev("clear_halt", 0, 0, self.bulk_out_ep, <<>>, o))
        /\ IF o.err # 0
           THEN Raise(USBError(o, "clear")) /\ UNCHANGED hist
           ELSE /\ Return(<<>>)
                /\ hist' = IF stack # <<>> /\ Head(stack) = "open_caps"
                           THEN [hist EXCEPT !.open_clear = TRUE] ELSE hist

(***************************************************************************)
(* Instrument.get_capabilities                                             *)
(***************************************************************************)
is_usb488(s) == usb.dev.cfgs[s.cfg].ifaces[s.iface].bInterfaceProtocol = USB488_bInterfaceProtocol

\* a decoding that takes the USB488 flags from another byte of the reply
\* than the USBTMC flags
Capabilities_split(s, b4, b5) ==
    LET s1 == [s EXCEPT !.bcdUSBTMC = 256,
                        !.support_pulse = Bit(b4, 4),
                        !.support_talk_only = Bit(b4, 2),
                        !.support_listen_only = Bit(b4, 1),
                        !.support_term_char = Bit(b5, 1)]
    IN IF usb.dev.cfgs[s.cfg].ifaces[s.iface].bInterfaceProtocol = USB488_bInterfaceProtocol
       THEN [s1 EXCEPT !.bcdUSB488 = 256,
                       !.support_USB4882 = Bit(b5, 4),
                       !.support_remote_local = Bit(b5, 2),
                       !.support_trigger = Bit(b5, 1),
                       !.support_scpi = Bit(b5, 8),
                       !.support_SR = Bit(b5, 4),
                       !.support_RL = Bit(b5, 2),
                       !.support_DT = Bit(b5, 1)]
       ELSE s1

\* the flags decoded from the reply's bytes 4 and 5 (b[2..3] and b[12..13]
\* are the device's bcd numbers, 1.00)
Capabilities(s, b4, b5) ==
    LET s1 == [s EXCEPT !.bcdUSBTMC = 256,
                        !.support_pulse = Bit(b4, 4),
                        !.support_talk_only = Bit(b4, 2),
                        !.support_listen_only = Bit(b4, 1),
                        !.support_term_char = Bit(b5, 1)]
    IN IF is_usb488(s)
       THEN [s1 EXCEPT !.bcdUSB488 = 256,
                       !.support_USB4882 = Bit(b4, 4),
                       !.support_remote_local = Bit(b4, 2),
                       !.support_trigger = Bit(b4, 1),
                       !.support_scpi = Bit(b4, 8),
                       !.support_SR = Bit(b4, 4),
                       !.support_RL = Bit(b4, 2),
                       !.support_DT = Bit(b4, 1)]
       ELSE s1

\* GET_CAPABILITIES, as the last step of open ("open_caps") or as the body of
\* the public operation
GetCapabilities ==
    /\ pc \in {"open_caps", "get_capabilities"}
    /\ UNCHANGED <<usb, op>>
    /\ \E o \in StatusOutcomes("caps") :
        /\ wire' = Append(wire, Ev("ctrl", USBTMC_REQUEST_GET_CAPABILITIES, 0, IfaceIndex, <<>>, o))
        /\ IF o.err # 0
           THEN Raise(USBError(o, "get_capabilities")) /\ UNCHANGED <<self, hist>>
           ELSE IF o.st = USBTMC_STATUS_SUCCESS
           THEN /\ self' = Capabilities(self, usb.dev.caps4, usb.dev.caps5)
                /\ hist' = IF pc = "open_caps" THEN [hist EXCEPT !.open_caps = TRUE] ELSE hist
                /\ Return(<<>>)
           ELSE /\ Raise(UsbtmcException("Get capabilities failed"))
                /\ UNCHANGED <<self, hist>>

(***************************************************************************)
(* Instrument.close                                                        *)
(***************************************************************************)
AttachEvents(ns, failing) ==
    [i \in 1..Len(ns) |->
        Ev("attach", 0, ns[i], 0, <<>>, IF ns[i] \in failing THEN Failure(EIO) ELSE Ok)]

\* what close leaves of the session
Closed(s) == [s EXCEPT !.reattach = <<>>, !.connected = FALSE]

\* close(): sc is the outcome of set_configuration(old_cfg), failing the
\* interfaces whose attach_kernel_driver raises
Close ==
    /\ pc = "idle"
    /\ op' = [NoOp EXCEPT !.name = "close"]
    /\ UNCHANGED <<pc, stack>>
    /\ result' = [NoResult EXCEPT !.op = "close", !.status = "ok"]
    /\ IF ~self.connected
       THEN /\ UNCHANGED <<self, usb>>
            /\ wire' = <<>>
            /\ hist' = [Counted(hist) EXCEPT !.survived = Len(self.reattach)]
       ELSE \E sc \in Outcomes("close"),
               failing \in (IF "close" \in usb.faults THEN SUBSET Range(self.reattach) ELSE {{}}) :
            LET dev == usb.dev
                \* old_cfg is None: the comparison raises, the handler passes
                restore == self.old_cfg # 0 /\ ~SameCfg(self)
                old == IF self.old_cfg # 0 THEN dev.cfgs[self.old_cfg].bConfigurationValue ELSE 0
                loop == self.old_cfg # 0 /\ (restore => sc.err = 0)
                w1 == <<Ev("dispose", 0, 0, 0, <<>>, Ok)>>
                w2 == IF restore THEN Append(w1, Ev("set_configuration", 0, old, 0, <<>>, sc)) ELSE w1
                w3 == IF loop THEN w2 \o AttachEvents(self.reattach, failing) ELSE w2
            IN /\ self' = Closed(self)
               /\ usb' = [usb EXCEPT
                            !.active_cfg = IF restore /\ sc.err = 0 THEN old ELSE @,
                            !.kdrv = IF loop THEN @ \cup (Range(self.reattach) \ failing) ELSE @]
               /\ wire' = w3
               /\ hist' = [Counted(hist) EXCEPT
                             !.survived = 0,
                             !.late = @ \/ (loop /\ hist.survived > 0),
                             !.closed = [reattach |-> self.reattach, changed |-> restore],
                             !.open_clear = FALSE, !.open_caps = FALSE]

(***************************************************************************)
(* The public operations the caller starts.                                *)
(***************************************************************************)
Open ==
    /\ pc = "idle"
    /\ pc' = "open"
    /\ stack' = <<>>
    /\ op' = [NoOp EXCEPT !.name = "open"]
    /\ wire' = <<>>
    /\ result' = NoResult
    /\ hist' = Counted(hist)
    /\ UNCHANGED <<self, usb>>

Clear ==
    /\ Call("clear", "clear", NoOp)
    /\ UNCHANGED <<self, usb>>

CallGetCapabilities ==
    /\ Call("get_capabilities", "get_capabilities", NoOp)
    /\ UNCHANGED <<self, usb>>

(***************************************************************************)
(* Instrument.pulse                                                        *)
(***************************************************************************)
\* INDICATOR_PULSE, only if the device supports it
PulseBody ==
    /\ pc = "pulse"
    /\ UNCHANGED <<self, usb, hist, op>>
    /\ IF self.support_pulse
       THEN \E o \in StatusOutcomes("pulse") :
              /\ wire' = Append(wire, Ev("ctrl", USBTMC_REQUEST_INDICATOR_PULSE, 0, IfaceIndex, <<>>, o))
              /\ IF o.err # 0 THEN Raise(USBError(o, "pulse"))
                 ELSE IF o.st # USBTMC_STATUS_SUCCESS THEN Raise(UsbtmcException("Pulse failed"))
                 ELSE Return(<<>>)
       ELSE wire' = wire /\ Return(<<>>)

Pulse ==
    /\ Call("pulse", "pulse", NoOp)
    /\ UNCHANGED <<self, usb>>


(***************************************************************************)
(* Message header management.                                              *)
(***************************************************************************)
\* a bTag counter that wraps as a byte does
NextBtag_wrap256(last) == (last + 1) % 256

\* the bTag pack_bulk_out_header allocates after `last`
NextBtag(last) == (last % 255) + 1

\* struct.pack('BBBx', msgid, btag, ~btag & 0xFF); the caller stores byte 2
\* of the result (1-based) in last_btag
pack_bulk_out_header(last, msgid) ==
    LET btag == NextBtag(last) IN <<msgid, btag, Inv8(btag), 0>>

pack_dev_dep_msg_out_header(last, transfer_size, eom) ==
    pack_bulk_out_header(last, USBTMC_MSGID_DEV_DEP_MSG_OUT)
        \o LE32(transfer_size) \o <<IF eom THEN 1 ELSE 0, 0, 0, 0>>

\* term_char is -1 for None
pack_dev_dep_msg_in_header(last, transfer_size, term_char) ==
    pack_bulk_out_header(last, USBTMC_MSGID_DEV_DEP_MSG_IN)
        \o LE32(transfer_size)
        \o (IF term_char = -1 THEN <<0, 0>> ELSE <<2, term_char>>) \o <<0, 0>>

\* the history of bulk-OUT headers: the bTag of the last one and of the one
\* before it (0: none yet)
Sent(h, hdr) == [h EXCEPT !.prev_btag = h.sent_btag, !.sent_btag = hdr[2]]

(***************************************************************************)
(* Instrument.write_raw                                                    *)
(***************************************************************************)
\* the bytes of data that one pass of the loop sends
Block(data, offset, mts) == Slice(data, offset, offset + mts)
\* an end-of-message test that misses a last chunk of exactly mts bytes
Eom_strict(eom, num, mts) == IF num < mts THEN TRUE ELSE eom

\* whether a pass with num bytes left marks its transfer as the last
Eom(eom, num, mts) == IF num <= mts THEN TRUE ELSE eom
\* no padding at all
Padding_none(size) == <<>>
Padding(size) == Zeros((4 - (size % 4)) % 4)

\* an echo device takes the chunk in; the chunk with EOM ends the message
Received(block, eom) ==
    IF "echo" \notin usb.faults THEN usb
    ELSE LET rx == usb.echo.rx \o block
         IN [usb EXCEPT !.echo = IF eom THEN [rx |-> <<>>, msg |-> rx, pos |-> 0]
                                  ELSE [@ EXCEPT !.rx = rx]]
\* history, against an echo device: the payload of the last write_raw that
\* returned, and which call of the run it was
Written(h, data) ==
    IF "echo" \in usb.faults THEN [h EXCEPT !.written = [data |-> data, call |-> h.calls]]
    ELSE h

\* one pass of "while num > 0", or the return when the loop's test fails
WriteChunk ==
    /\ pc = "write_loop"
    /\ IF op.num > 0
       THEN LET eom == Eom(op.eom, op.num, self.max_transfer_size)
                block == Block(op.data, op.offset, self.max_transfer_size)
                size == Len(block)
                hdr == pack_dev_dep_msg_out_header(self.last_btag, size, eom)
                req == hdr \o block \o Padding(size)
            IN \E o \in BulkOutcomes :
                /\ self' = [self EXCEPT !.last_btag = hdr[2]]
                /\ hist' = Sent(hist, hdr)
                /\ wire' = Append(wire, Ev("bulk_out", 0, 0, self.bulk_out_ep, req, o))
                /\ usb' = IF o.err = 0 THEN Received(block, eom) ELSE usb
                /\ IF o.err = 0
                   THEN /\ op' = [op EXCEPT !.eom = eom, !.offset = @ + size, !.num = @ - size]
                        /\ UNCHANGED <<pc, stack, result>>
                   ELSE IF o.err = ETIMEDOUT
                   THEN /\ op' = [op EXCEPT !.eom = eom, !.exc = USBError(o, "bulk_out")]
                        /\ pc' = "abort_bulk_out"
                        /\ UNCHANGED <<stack, result>>
                   ELSE /\ op' = [op EXCEPT !.eom = eom]
                        /\ Raise(USBError(o, "bulk_out"))
       ELSE /\ Return(<<>>)
            /\ hist' = Written(hist, op.data)
            /\ UNCHANGED <<self, usb, op, wire>>

(***************************************************************************)
(* Instrument._abort_bulk_out, as the timeout handler of write_raw calls   *)
(* it; when it returns the handler re-raises the timeout (op.exc), and an  *)
(* exception of its own replaces the timeout.                              *)
(***************************************************************************)
\* the halt of bulk-out is cleared when the last status read is SUCCESS
ClearsHalt_never(b0) == FALSE
ClearsHalt(b0) == b0 = USBTMC_STATUS_SUCCESS

\* INITIATE_ABORT_BULK_OUT
\* an abort that names the bTag before the last one
AbortTag_prev(s) == hist.prev_btag
\* "if btag is None: btag = self.last_btag"
AbortTag(s) == s.last_btag

AbortBulkOut ==
    /\ pc = "abort_bulk_out"
    /\ UNCHANGED <<self, usb, hist>>
    /\ IF ~self.connected
       THEN Raise(op.exc) /\ UNCHANGED <<op, wire>>
       ELSE \E o \in StatusOutcomes("abort") :
            /\ wire' = Append(wire, Ev("ctrl", USBTMC_REQUEST_INITIATE_ABORT_BULK_OUT,
                                       AbortTag(self), self.bulk_out_ep, <<>>, o))
            /\ op' = [op EXCEPT !.b0 = o.st, !.polls = 0, !.tick = 0]
            /\ IF o.err # 0 THEN Raise(USBError(o, "abort_bulk_out"))
               ELSE IF o.st = USBTMC_STATUS_SUCCESS
               THEN pc' = "abort_out_poll" /\ UNCHANGED <<stack, result>>
               ELSE Raise(op.exc)

\* CHECK_ABORT_BULK_OUT_STATUS, until the status is not PENDING
AbortOutPoll ==
    /\ pc = "abort_out_poll"
    /\ UNCHANGED <<self, usb, hist>>
    /\ \E o \in PollOutcomes("abort", TRUE) :
        /\ wire' = Logged(Ev("ctrl", USBTMC_REQUEST_CHECK_ABORT_BULK_OUT_STATUS,
                             0, self.bulk_out_ep, <<>>, o))
        /\ op' = Polled(o)
        /\ IF o.err # 0 THEN Raise(USBError(o, "abort_bulk_out"))
           ELSE IF o.st = USBTMC_STATUS_PENDING THEN UNCHANGED <<pc, stack, result>>
           ELSE IF ClearsHalt(o.st)
           THEN pc' = "abort_out_halt" /\ UNCHANGED <<stack, result>>
           ELSE Raise(op.exc)

\* bulk_out_ep.clear_halt() after a final SUCCESS
AbortOutHalt ==
    /\ pc = "abort_out_halt"
    /\ UNCHANGED <<self, usb, hist, op>>
    /\ \E o \in Outcomes("abort") :
        /\ wire' = Append(wire, Ev("clear_halt", 0, 0, self.bulk_out_ep, <<>>, o))
        /\ IF o.err # 0 THEN Raise(USBError(o, "abort_bulk_out")) ELSE Raise(op.exc)

\* the payloads of the model: the byte strings over the run's bytes, to MaxLen
RECURSIVE Strings(_, _)
Strings(bytes, n) ==
    IF n = 0 THEN {<<>>}
    ELSE LET shorter == Strings(bytes, n - 1)
         IN shorter \cup {Append(s, b) : s \in {t \in shorter : Len(t) = n - 1}, b \in bytes}
Payloads == Strings(usb.bytes, MaxLen)

WriteRaw ==
    /\ \E data \in Payloads :
        Call("write_raw", "write_loop", [NoOp EXCEPT !.data = data, !.num = Len(data)])
    /\ UNCHANGED <<self, usb>>

(***************************************************************************)
(* Instrument.read_raw                                                     *)
(***************************************************************************)
\* unpack_dev_dep_resp_header: <<msgid, btag, btaginverse, transfer_size,
\* transfer_attributes, data>> of a packet of at least 12 bytes
unpack_dev_dep_resp_header(resp) ==
    LET transfer_size == UnLE32(SubSeq(resp, 5, 8))
    IN <<resp[1], resp[2], resp[3], transfer_size, resp[9],
         Slice(resp, USBTMC_HEADER_SIZE, transfer_size + USBTMC_HEADER_SIZE)>>

IsDigit(b) == b \in 48..57
RECURSIVE Decimal(_)
Decimal(ds) ==
    IF ds = <<>> THEN 0
    ELSE 10 * Decimal(SubSeq(ds, 1, Len(ds) - 1)) + (ds[Len(ds)] - 48)
\* the size the IEEE 488.2 block header "#<l><n...>" of data announces,
\* n + l + 2, or -1 where int() or the indexing raises
IeeeBlockSize(data) ==
    IF Len(data) < 2 THEN -1
    ELSE IF ~IsDigit(data[2]) THEN -1
    ELSE LET l == data[2] - 48
             ds == Slice(data, 2, l + 2)
         IN IF ds = <<>> \/ \E k \in 1..Len(ds) : ~IsDigit(ds[k]) THEN -1
            ELSE Decimal(ds) + (l + 2)

\* an end-of-message test that ends the message at its first transfer
EomOf_always(data, transfer_size, transfer_attributes) == TRUE

\* an end-of-message test that looks at the EOM bit alone
EomOf_flag(data, transfer_size, transfer_attributes) == Bit(transfer_attributes, 1)

\* whether the non-Rigol path takes a transfer as the end of the message
EomOf(data, transfer_size, transfer_attributes) ==
    IF Len(data) >= transfer_size THEN Bit(transfer_attributes, 1) ELSE FALSE

\* the read_len read_raw starts with
ReadLen(num, mts) == IF 0 < num /\ num < mts THEN num ELSE mts

\* whether a pass sends a request; a Rigol instrument that sees one starts
\* its answer again
Requested == ~self.rigol_quirk \/ op.read_data = <<>>
\* the request of one pass of "while not eom": a REQUEST_DEV_DEP_MSG_IN
\* header, unless the Rigol quirk is on and data has been read
ReadRequest ==
    /\ pc = "read_loop"
    /\ UNCHANGED usb
    /\ IF Requested
       THEN LET req == pack_dev_dep_msg_in_header(self.last_btag, op.read_len, self.term_char)
            IN \E o \in BulkOutcomes :
                /\ self' = [self EXCEPT !.last_btag = req[2]]
                /\ hist' = Sent(hist, req)
                /\ wire' = Append(wire, Ev("bulk_out", 0, 0, self.bulk_out_ep, req, o))
                /\ IF o.err = 0
                   THEN pc' = "read_resp" /\ UNCHANGED <<op, stack, result>>
                   ELSE IF o.err = ETIMEDOUT
                   THEN /\ op' = [op EXCEPT !.exc = USBError(o, "bulk_out")]
                        /\ pc' = "abort_bulk_in"
                        /\ UNCHANGED <<stack, result>>
                   ELSE Raise(USBError(o, "bulk_out")) /\ UNCHANGED op
       ELSE /\ pc' = "read_resp"
            /\ UNCHANGED <<self, op, wire, hist, stack, result>>

\* what a device may send on bulk-IN in this pass.  A packet with a header
\* echoes the request's bTag ("badtag": or the tag before it, or a wrong
\* complement), carries read_len bytes ("partial": or fewer), declares its
\* body's size ("short": or more than it sends), and sets EOM ("more": or
\* not); "runt": or it is shorter than a header.  The device ends the
\* message once it has answered MaxIters transfers, sends at most MaxLen
\* bytes in one transfer, and fills its messages with the run's least byte.
Resp(btag, inv, size, attrs, body) ==
    <<USBTMC_MSGID_DEV_DEP_MSG_IN, btag, inv, 0>> \o LE32(size) \o <<attrs, 0, 0, 0>> \o body
Filled(k) == [i \in 1..k |-> Min(usb.bytes)]
\* an echo device answers the request with the next bytes of its message, at
\* most the TransferSize requested, and sets EOM on the transfer that ends it
EchoBody == Slice(usb.echo.msg, usb.echo.pos, usb.echo.pos + op.read_len)
EchoEnds == usb.echo.pos + op.read_len >= Len(usb.echo.msg)
EchoResponse ==
    Resp(self.last_btag, Inv8(self.last_btag), Len(EchoBody), IF EchoEnds THEN 1 ELSE 0, EchoBody)
\* a block device ("ieee") answers "#<l><n, l digits><n bytes>", a line feed
\* after it or not, in packets of any size up to the size requested; the
\* first packet has a header, which declares the body's size or 16
BlockFrom == IF Requested THEN 0 ELSE usb.echo.pos
BlockResponses ==
    LET left == Len(usb.echo.msg) - BlockFrom
        body(k) == Slice(usb.echo.msg, BlockFrom, BlockFrom + k)
    IN UNION {IF Requested
              THEN {Resp(self.last_btag, Inv8(self.last_btag), z, a, body(k))
                       : z \in {k, 16}, a \in {0, 1}}
              ELSE {body(k)}
                 : k \in 1..Min({left, op.read_len})}
\* the device once it has sent the packet resp
Answered(resp) ==
    IF "echo" \in usb.faults
    THEN [usb EXCEPT !.echo.pos = IF EchoEnds THEN 0 ELSE @ + op.read_len]
    ELSE IF "ieee" \in usb.faults
    THEN [usb EXCEPT !.echo.pos =
              BlockFrom + Len(resp) - (IF Requested THEN USBTMC_HEADER_SIZE ELSE 0)]
    ELSE usb
MustEnd == op.iters >= MaxIters
\* a Rigol instrument ("whole") declares in its one header the size of the
\* whole answer, and sends it in packets no longer than the TransferSize of
\* the request it has seen, whatever the host has counted since
WholeSize == MaxLen + 1
RequestedSize ==
    LET js == {j \in 1..Len(wire) : wire[j].kind = "bulk_out"}
        last == CHOOSE j \in js : \A k \in js : k <= j
    IN UnLE32(SubSeq(wire[last].data, 5, 8))
DeviceResponses ==
    LET bad == "badtag" \in usb.faults
        tags == {self.last_btag} \cup (IF bad THEN {hist.prev_btag} ELSE {})
        invs(t) == {Inv8(t)} \cup (IF bad /\ t = self.last_btag THEN {t} ELSE {})
        most == Min({op.read_len, MaxLen})
        bodies == IF "partial" \in usb.faults THEN {Filled(k) : k \in 0..most}
                  ELSE {Filled(most)}
        sizes(b) == {Len(b)} \cup (IF "short" \in usb.faults /\ ~MustEnd THEN {Len(b) + 1} ELSE {})
                             \cup (IF "whole" \in usb.faults THEN {WholeSize} ELSE {})
        attrs == IF MustEnd \/ "more" \notin usb.faults THEN {1} ELSE {0, 1}
        rest == op.transfer_size - Len(op.read_data)
    IN IF "echo" \in usb.faults THEN {EchoResponse}
       ELSE IF "ieee" \in usb.faults THEN BlockResponses
       ELSE IF self.rigol_quirk /\ op.read_data # <<>>
       THEN IF "whole" \in usb.faults THEN {Filled(k) : k \in 1..Min({RequestedSize, MaxLen})}
            ELSE IF MustEnd THEN {Filled(rest)}
            ELSE {Filled(k) : k \in 1..Min({op.read_len, MaxLen})}
       ELSE UNION {UNION {{Resp(t, i, z, a, b) : i \in invs(t), z \in sizes(b), a \in attrs}
                          : b \in bodies} : t \in tags}
            \cup (IF "runt" \in usb.faults THEN {<<USBTMC_MSGID_DEV_DEP_MSG_IN, self.last_btag>>} ELSE {})
ReadOutcomes ==
    {[err |-> o.err, data |-> <<>>] : o \in BulkOutcomes \ {Ok}}
    \cup {[err |-> 0, data |-> r] : r \in DeviceResponses}

\* the locals once the pass has taken the packet resp in, up to the test of
\* the Advantest quirk; fail names the exception the pass raises ("": none)
TakeIn(resp) ==
    LET cont == self.rigol_quirk /\ op.read_data # <<>>
    IN IF ~cont /\ Len(resp) < USBTMC_HEADER_SIZE
       THEN [o |-> op, fail |-> "struct.error"]
       ELSE IF cont
       THEN LET rd == op.read_data \o resp
                full == Len(rd) >= op.transfer_size
            IN [o |-> [op EXCEPT !.read_data = IF full THEN SubSeq(rd, 1, op.transfer_size) ELSE rd,
                                 !.eom = full],
                fail |-> ""]
       ELSE LET u == unpack_dev_dep_resp_header(resp)
                data == u[6]
            IN IF self.rigol_quirk
               THEN LET ieee == self.rigol_quirk_ieee_block /\ data # <<>> /\ data[1] = 35
                        ts == IF ieee THEN IeeeBlockSize(data) ELSE u[4]
                        rd == op.read_data \o data
                        full == Len(rd) >= ts
                    IN IF ieee /\ ts = -1
                       THEN [o |-> [op EXCEPT !.data = data], fail |-> "ValueError"]
                       ELSE [o |-> [op EXCEPT !.data = data, !.transfer_size = ts,
                                              !.read_data = IF full THEN SubSeq(rd, 1, ts) ELSE rd,
                                              !.eom = full],
                             fail |-> ""]
               ELSE [o |-> [op EXCEPT !.data = data, !.transfer_size = u[4],
                                      !.eom = EomOf(data, u[4], u[5]),
                                      !.read_data = @ \o data],
                     fail |-> ""]

\* a pass that always ends the call
EndOfPass_once(o) == [o |-> o, done |-> TRUE]

\* the end of a pass: the Advantest break, the count of num, and the test
\* of "while not eom"; done tells whether read_raw returns
EndOfPass(o) ==
    IF self.advantest_quirk THEN [o |-> o, done |-> TRUE]
    ELSE IF o.num > 0
    THEN LET num == o.num - Len(o.data)
         IN IF num <= 0 THEN [o |-> [o EXCEPT !.num = num], done |-> TRUE]
            ELSE [o |-> [o EXCEPT !.num = num, !.read_len = IF num < @ THEN num ELSE @],
                  done |-> o.eom]
    ELSE [o |-> o, done |-> o.eom]

\* the bulk-IN read of one pass and what the pass does with the packet
ReadResponse ==
    /\ pc = "read_resp"
    /\ UNCHANGED <<self, hist>>
    /\ \E r \in ReadOutcomes :
        /\ usb' = IF r.err = 0 THEN Answered(r.data) ELSE usb
        /\ wire' = Append(wire, Ev("bulk_in", 0, 0, self.bulk_in_ep, r.data, Failure(r.err)))
        /\ IF r.err = ETIMEDOUT
           THEN /\ op' = [op EXCEPT !.exc = Exc("USBError", r.err, "bulk_in")]
                /\ pc' = "abort_bulk_in"
                /\ UNCHANGED <<stack, result>>
           ELSE IF r.err # 0
           THEN Raise(Exc("USBError", r.err, "bulk_in")) /\ UNCHANGED op
           ELSE LET t == TakeIn(r.data)
                    e == EndOfPass([t.o EXCEPT !.iters = @ + 1])
                IN IF t.fail # ""
                   THEN Raise(Exc(t.fail, 0, "read_raw")) /\ op' = t.o
                   ELSE /\ op' = e.o
                        /\ IF e.done
                           THEN Return(e.o.read_data)
                           ELSE pc' = "read_loop" /\ UNCHANGED <<stack, result>>

(***************************************************************************)
(* Instrument._abort_bulk_in, as the timeout handler of read_raw calls it. *)
(***************************************************************************)
\* bulk-IN is drained and polled when INITIATE_ABORT_BULK_IN answers SUCCESS
DrainsBulkIn_always(b0) == TRUE
DrainsBulkIn(b0) == b0 = USBTMC_STATUS_SUCCESS

\* INITIATE_ABORT_BULK_IN
AbortBulkIn ==
    /\ pc = "abort_bulk_in"
    /\ UNCHANGED <<self, usb, hist>>
    /\ IF ~self.connected
       THEN Raise(op.exc) /\ UNCHANGED <<op, wire>>
       ELSE \E o \in StatusOutcomes("abort") :
            /\ wire' = Append(wire, Ev("ctrl", USBTMC_REQUEST_INITIATE_ABORT_BULK_IN,
                                       AbortTag(self), self.bulk_in_ep, <<>>, o))
            /\ op' = [op EXCEPT !.b0 = o.st, !.polls = 0, !.tick = 0]
            /\ IF o.err # 0 THEN Raise(USBError(o, "abort_bulk_in"))
               ELSE IF DrainsBulkIn(o.st)
               THEN pc' = "abort_in_drain" /\ UNCHANGED <<stack, result>>
               ELSE Raise(op.exc)

\* the read that drains bulk-IN
AbortInDrain ==
    /\ pc = "abort_in_drain"
    /\ UNCHANGED <<self, usb, hist, op>>
    /\ \E o \in Outcomes("abort") :
        /\ wire' = Append(wire, Ev("drain", 0, 0, self.bulk_in_ep, <<>>, o))
        /\ IF o.err # 0 THEN Raise(USBError(o, "abort_bulk_in"))
           ELSE pc' = "abort_in_poll" /\ UNCHANGED <<stack, result>>

\* CHECK_ABORT_BULK_IN_STATUS, until the status is not PENDING
AbortInPoll ==
    /\ pc = "abort_in_poll"
    /\ UNCHANGED <<self, usb, hist>>
    /\ \E o \in PollOutcomes("abort", TRUE) :
        /\ wire' = Logged(Ev("ctrl", USBTMC_REQUEST_CHECK_ABORT_BULK_IN_STATUS,
                             0, self.bulk_in_ep, <<>>, o))
        /\ op' = Polled(o)
        /\ IF o.err # 0 THEN Raise(USBError(o, "abort_bulk_in"))
           ELSE IF o.st = USBTMC_STATUS_PENDING THEN UNCHANGED <<pc, stack, result>>
           ELSE Raise(op.exc)

\* the values of num of the model: the default, and 1..MaxLen
Nums == {-1} \cup 1..(IF "ieee" \in usb.faults THEN MaxBlock + 4 ELSE MaxLen)

ReadRaw ==
    /\ \E num \in Nums :
        Call("read_raw", "read_loop",
             [NoOp EXCEPT !.num = num, !.given = num,
                          !.read_len = ReadLen(num, self.max_transfer_size)])
    /\ UNCHANGED <<self, usb>>

(***************************************************************************)
(* Instrument.lock and Instrument.unlock                                   *)
(***************************************************************************)
\* the vendor-specific control transfer of lock (wValue 1) and unlock (0)
LockEvent(val, o) == Ev("ctrl", ADVANTEST_LOCK_REQUEST, val, 0, <<>>, o)

\* a method called by another one: "if not self.connected: self.open()",
\* then its body at `label`; rest is where the caller goes on
Enter(label, rest) ==
    IF self.connected
    THEN pc' = label /\ stack' = rest
    ELSE pc' = "open" /\ stack' = <<label>> \o rest

Locked(s) == [s EXCEPT !.advantest_locked = TRUE]
\* an unlock that leaves the flag as it is
Unlocked_kept(s) == s
Unlocked(s) == [s EXCEPT !.advantest_locked = FALSE]

\* the body of lock: the flag is set before the transfer
LockBody ==
    /\ pc = "lock"
    /\ UNCHANGED <<usb, hist, op>>
    /\ IF self.advantest_quirk
       THEN \E o \in Outcomes("lock") :
              /\ self' = Locked(self)
              /\ wire' = Append(wire, LockEvent(1, o))
              /\ IF o.err # 0 THEN Raise(USBError(o, "lock")) ELSE Return(<<>>)
       ELSE Raise(Exc("NotImplementedError", 0, "lock")) /\ UNCHANGED <<self, wire>>

\* the body of unlock: the flag is reset before the transfer
UnlockBody ==
    /\ pc = "unlock"
    /\ UNCHANGED <<usb, hist, op>>
    /\ IF self.advantest_quirk
       THEN \E o \in Outcomes("lock") :
              /\ self' = Unlocked(self)
              /\ wire' = Append(wire, LockEvent(0, o))
              /\ IF o.err # 0 THEN Raise(USBError(o, "unlock")) ELSE Return(<<>>)
       ELSE Raise(Exc("NotImplementedError", 0, "unlock")) /\ UNCHANGED <<self, wire>>

Lock ==
    /\ Call("lock", "lock", NoOp)
    /\ UNCHANGED <<self, usb>>

Unlock ==
    /\ Call("unlock", "unlock", NoOp)
    /\ UNCHANGED <<self, usb>>

(***************************************************************************)
(* Instrument.ask and Instrument.ask_raw (one message): lock an unlocked   *)
(* Advantest instrument, write, read, and unlock again whatever happened.  *)
(* ask encodes its message and decodes and strips the answer; the model's  *)
(* bytes are ASCII, which both conversions leave as they are.              *)
(***************************************************************************)
\* "*STB?"
StbQuery == <<42, 83, 84, 66, 63>>

\* ask up to the call of lock or of write_raw; neither ask nor ask_raw opens
\* the session itself
Ask ==
    /\ pc = "ask"
    /\ UNCHANGED <<self, usb, hist, wire, result>>
    /\ LET was == self.advantest_locked
           rest == <<"ask_read", "ask_finally">> \o stack
       IN /\ op' = [op EXCEPT !.was_locked = was, !.num = Len(op.data)]
          /\ IF self.advantest_quirk /\ ~was
             THEN Enter("lock", <<"write_loop">> \o rest)
             ELSE Enter("write_loop", rest)

\* read(num) or read_raw(num): read_raw's locals
AskRead ==
    /\ pc = "ask_read"
    /\ op' = [op EXCEPT !.num = op.ask_num,
                        !.read_len = ReadLen(op.ask_num, self.max_transfer_size),
                        !.read_data = <<>>, !.eom = FALSE, !.iters = 0,
                        !.transfer_size = 0, !.data = <<>>, !.offset = 0]
    /\ Enter("read_loop", stack)
    /\ UNCHANGED <<self, usb, wire, result, hist>>

\* what rstrip('\r\n') leaves of the answer
RECURSIVE Rstrip(_)
Rstrip(t) ==
    IF t # <<>> /\ t[Len(t)] \in {10, 13} THEN Rstrip(SubSeq(t, 1, Len(t) - 1)) ELSE t

\* the "finally" of ask, and its end: result holds the exception on its
\* way, if any, which an exception of unlock replaces
AskFinally ==
    /\ pc \in {"ask_finally", "ask_end"}
    /\ UNCHANGED <<self, usb, hist, op, wire>>
    /\ IF pc = "ask_finally" /\ self.advantest_quirk /\ ~op.was_locked
       THEN Enter("unlock", <<"ask_end">> \o stack) /\ UNCHANGED result
       ELSE IF result.status # "none"
       THEN /\ pc' = IF result.status = "SystemExit" THEN "exit" ELSE "idle"
            /\ stack' = <<>>
            /\ UNCHANGED result
       ELSE Return(IF op.name = "ask" THEN Rstrip(op.read_data) ELSE op.read_data)

\* ask(message, num) and ask_raw(data, num) start
CallAsk ==
    /\ pc = "idle"
    /\ \E name \in {"ask", "ask_raw"}, data \in Payloads, num \in Nums :
          op' = [NoOp EXCEPT !.name = name, !.data = data, !.ask_num = num,
                             !.was_connected = self.connected]
    /\ pc' = "ask"
    /\ stack' = <<>>
    /\ wire' = <<>>
    /\ result' = NoResult
    /\ hist' = Counted(hist)
    /\ UNCHANGED <<self, usb>>

(***************************************************************************)
(* Instrument.read_stb                                                     *)
(***************************************************************************)
\* the tag of the next READ_STATUS_BYTE request
NextRstbBtag(last) ==
    LET t == (last % 128) + 1 IN IF t < 2 THEN 2 ELSE t

\* the status bytes of the model's instruments
StbValues == {0, 80}

\* the reply <<status, bTag, status byte>> to READ_STATUS_BYTE: the device
\* echoes the request's bTag ("stb": or another one, or it fails)
StbReplies(btag) ==
    {[err |-> 0, b |-> <<USBTMC_STATUS_SUCCESS, btag, v>>] : v \in StbValues}
    \cup (IF "stb" \in usb.faults
          THEN {[err |-> 0, b |-> <<USBTMC_STATUS_SUCCESS, (btag % 127) + 1, 0>>],
                [err |-> 0, b |-> <<USBTMC_STATUS_FAILED, btag, 0>>],
                [err |-> EIO, b |-> <<>>]}
          ELSE {})

\* the interrupt-in packet <<bTag with bit 7 set, status byte>> ("stb": or
\* the packet of another bTag, or the read fails)
StbPackets(btag) ==
    {[err |-> 0, b |-> <<128 + (btag % 128), v>>] : v \in StbValues}
    \cup (IF "stb" \in usb.faults
          THEN {[err |-> 0, b |-> <<128 + (((btag % 127) + 1) % 128), 0>>],
                [err |-> EIO, b |-> <<>>]}
          ELSE {})

\* read_stb up to the interrupt-in read, or to the call of ask
ReadStbRequest ==
    /\ pc = "read_stb"
    /\ UNCHANGED <<usb, hist>>
    /\ IF is_usb488(self)
       THEN LET rstb_btag == NextRstbBtag(self.last_rstb_btag)
            IN \E r \in StbReplies(rstb_btag) :
                /\ self' = [self EXCEPT !.last_rstb_btag = rstb_btag]
                /\ op' = [op EXCEPT !.rstb_btag = rstb_btag]
                /\ wire' = Append(wire, Ev("ctrl", USB488_READ_STATUS_BYTE, rstb_btag, IfaceIndex,
                                           r.b, Failure(r.err)))
                /\ IF r.err # 0 THEN Raise(Exc("USBError", r.err, "read_stb"))
                   ELSE IF r.b[1] = USBTMC_STATUS_SUCCESS
                   THEN IF rstb_btag # r.b[2]
                        THEN Raise(UsbtmcException("Read status byte btag mismatch"))
                        ELSE IF self.interrupt_in_ep = 0
                        THEN Return(<<r.b[3]>>)
                        ELSE pc' = "stb_interrupt" /\ UNCHANGED <<stack, result>>
                   ELSE Raise(UsbtmcException("Read status failed"))
       ELSE /\ op' = [op EXCEPT !.data = StbQuery]
            /\ pc' = "ask"
            /\ stack' = <<"stb_int">>
            /\ UNCHANGED <<self, wire, result>>

\* the read of the interrupt-in endpoint and the test of its tag
StbInterrupt ==
    /\ pc = "stb_interrupt"
    /\ UNCHANGED <<self, usb, hist, op>>
    /\ \E r \in StbPackets(op.rstb_btag) :
        /\ wire' = Append(wire, Ev("intr_in", 0, 0, self.interrupt_in_ep, r.b, Failure(r.err)))
        /\ IF r.err # 0 THEN Raise(Exc("USBError", r.err, "read_stb"))
           ELSE IF r.b[1] # op.rstb_btag + 128
           THEN Raise(UsbtmcException("Read status byte btag mismatch"))
           ELSE Return(<<r.b[2]>>)

\* int() of the answer to "*STB?"; an answer that is no decimal number
\* raises ValueError
StbInt ==
    /\ pc = "stb_int"
    /\ UNCHANGED <<self, usb, hist, op, wire>>
    /\ LET text == Rstrip(op.read_data)
       IN IF text # <<>> /\ \A k \in 1..Len(text) : IsDigit(text[k])
          THEN Return(<<Decimal(text)>>)
          ELSE Raise(Exc("ValueError", 0, "read_stb"))

ReadStb ==
    /\ Call("read_stb", "read_stb", NoOp)
    /\ UNCHANGED <<self, usb>>

(***************************************************************************)
(* Specifications.                                                         *)
(***************************************************************************)
AllFaults ==
    {"open", "detach", "clear", "caps", "close", "timeout", "eio", "abort", "pending",
     "badtag", "partial", "short", "more", "runt", "stb", "lock"}

\* the bulk-OUT engine on an instrument whose bulk transfers and aborts may
\* fail
InitWrite ==
    InitWith({GenericDev}, 1..MaxMts, {{}}, {1}, {{"timeout"}}, {FALSE}, {65, 66})

NextWrite ==
    \/ WriteRaw
    \/ OpenBegin
    \/ ClearInitiate
    \/ ClearPoll
    \/ ClearHalt
    \/ GetCapabilities
    \/ WriteChunk
    \/ AbortBulkOut
    \/ AbortOutPoll
    \/ AbortOutHalt

SpecWrite == InitWrite /\ [][NextWrite]_vars

\* the bulk-IN engine on an instrument that may answer with a stale bTag or
\* a wrong complement
InitRead ==
    InitWith({GenericDev}, 1..MaxMts, {{}}, {1}, {{"badtag", "more"}}, {FALSE}, {65})

NextRead ==
    \/ ReadRaw
    \/ OpenBegin
    \/ ClearInitiate
    \/ ClearPoll
    \/ ClearHalt
    \/ GetCapabilities
    \/ ReadRequest
    \/ ReadResponse

SpecRead == InitRead /\ [][NextRead]_vars

\* read_stb on instruments with and without USB488, with and without an
\* interrupt-in endpoint
InitStb ==
    InitWith({GenericDev, Usb488Dev, Usb488NoIntrDev, AdvantestDev}, {MaxMts}, {{}}, {1},
             {{"stb", "lock"}}, {FALSE}, {49})

NextStb ==
    \/ ReadStb
    \/ OpenBegin
    \/ ClearInitiate
    \/ ClearPoll
    \/ ClearHalt
    \/ GetCapabilities
    \/ ReadStbRequest
    \/ StbInterrupt
    \/ Ask
    \/ LockBody
    \/ WriteChunk
    \/ AskRead
    \/ ReadRequest
    \/ ReadResponse
    \/ AskFinally
    \/ UnlockBody
    \/ StbInt

SpecStb == InitStb /\ [][NextStb]_vars

\* a few writes and reads against an echo device
InitEcho ==
    InitWith({GenericDev}, {MaxMts}, {{}}, {1}, {{"echo"}}, {FALSE}, {65, 66})

NextEcho ==
    \/ hist.calls < MaxCalls /\ WriteRaw
    \/ hist.calls < MaxCalls /\ ReadRaw
    \/ OpenBegin
    \/ ClearInitiate
    \/ ClearPoll
    \/ ClearHalt
    \/ GetCapabilities
    \/ WriteChunk
    \/ ReadRequest
    \/ ReadResponse

SpecEcho == InitEcho /\ [][NextEcho]_vars

(***************************************************************************)
(* Instrument.trigger                                                      *)
(***************************************************************************)
\* a trigger message with a bTag of its own
pack_usb488_trigger_own(last) == <<USB488_MSGID_TRIGGER, 1, Inv8(1), 0>> \o Zeros(8)
pack_usb488_trigger(last) == pack_bulk_out_header(last, USB488_MSGID_TRIGGER) \o Zeros(8)

\* "*TRG"
TrgCommand == <<42, 84, 82, 71>>

\* the body of trigger: the USB488 trigger message where the interface
\* supports it, else write("*TRG")
TriggerBody ==
    /\ pc = "trigger"
    /\ UNCHANGED usb
    /\ IF self.support_trigger
       THEN LET data == pack_usb488_trigger(self.last_btag)
            IN \E o \in BulkOutcomes :
                /\ self' = [self EXCEPT !.last_btag = data[2]]
                /\ hist' = Sent(hist, data)
                /\ wire' = Append(wire, Ev("bulk_out", 0, 0, self.bulk_out_ep, data, o))
                /\ UNCHANGED op
                /\ IF o.err = 0 THEN Return(<<>>) ELSE Raise(USBError(o, "bulk_out"))
       ELSE /\ op' = [op EXCEPT !.data = TrgCommand, !.num = Len(TrgCommand)]
            /\ pc' = "write_loop"
            /\ UNCHANGED <<self, hist, wire, stack, result>>

Trigger ==
    /\ Call("trigger", "trigger", NoOp)
    /\ UNCHANGED <<self, usb>>

(***************************************************************************)
(* Resource strings: list_resources formats them, the constructor parses   *)
(* them.  A string is the sequence of its characters' codes.               *)
(***************************************************************************)
\* None, where a string is expected
NoSerial == <<-1>>
\* "::", "USB" and "INSTR"
Sep == <<58, 58>>
Usb == <<85, 83, 66>>
Instr == <<73, 78, 83, 84, 82>>
\* "\s" and "[^\s:]+" of the pattern
IsSpace(c) == c \in {9, 10, 11, 12, 13, 32}
IsField(t) == t # <<>> /\ \A i \in 1..Len(t) : ~IsSpace(t[i]) /\ t[i] # 58
\* re.I: the letters of the pattern match either case
Upper(c) == IF c \in 97..122 THEN c - 32 ELSE c
SameText(t, u) == Len(t) = Len(u) /\ \A i \in 1..Len(t) : Upper(t[i]) = Upper(u[i])
\* '%d' of a natural number
RECURSIVE Dec(_)
Dec(n) == IF n < 10 THEN <<48 + n>> ELSE Dec(n \div 10) \o <<48 + (n % 10)>>

\* the product id list_resources shows for a device in firmware update mode
FixedProduct(vid, pid) ==
    IF vid = 2391 /\ pid = 10264 THEN 10520
    ELSE IF vid = 2391 /\ pid = 16920 THEN 16664
    ELSE IF vid = 2391 /\ pid = 17432 THEN 17176
    ELSE pid

\* a format that writes the product id before the vendor id
ResourceString_swapped(idVendor, idProduct, iSerial) ==
    Usb \o Sep \o Dec(idProduct) \o Sep \o Dec(idVendor)
        \o (IF iSerial = NoSerial THEN <<>> ELSE Sep \o iSerial) \o Sep \o Instr

\* "USB::%d::%d::INSTR" and "USB::%d::%d::%s::INSTR"
ResourceString(idVendor, idProduct, iSerial) ==
    Usb \o Sep \o Dec(idVendor) \o Sep \o Dec(idProduct)
        \o (IF iSerial = NoSerial THEN <<>> ELSE Sep \o iSerial) \o Sep \o Instr

\* the first index of a colon in t, Len(t) + 1 when it has none
Colon(t) == Min({i \in 1..Len(t) : t[i] = 58} \cup {Len(t) + 1})
\* the arg3 the end of the pattern, "(::arg3)?(::INSTR)$", finds in t, as a
\* set: empty when t does not match; "$" also matches before a last "\n"
TailArgs(t) ==
    LET ends == {t} \cup (IF t # <<>> /\ t[Len(t)] = 10 THEN {SubSeq(t, 1, Len(t) - 1)} ELSE {})
        arg(u) == SubSeq(u, 3, Len(u) - 7)
    IN {NoSerial : u \in {u \in ends : Len(u) = 7 /\ SameText(u, Sep \o Instr)}}
       \cup {arg(u) : u \in {u \in ends : /\ Len(u) > 9
                                         /\ SubSeq(u, 1, 2) = Sep
                                         /\ IsField(arg(u))
                                         /\ SameText(SubSeq(u, Len(u) - 6, Len(u)), Sep \o Instr)}}
\* the ways arg2, "[^\s:]+(\[.+\])?", matches a start of r with the end of
\* the pattern matching what follows: <<length of the field, length of the
\* bracket (0: none)>>
Arg2Cuts(r) ==
    {x \in (1..Len(r)) \X (0..Len(r)) :
        /\ x[1] + x[2] <= Len(r)
        /\ IsField(SubSeq(r, 1, x[1]))
        /\ x[2] # 0 => /\ x[2] >= 3
                       /\ r[x[1] + 1] = 91
                       /\ r[x[1] + x[2]] = 93
                       /\ \A i \in (x[1] + 2)..(x[1] + x[2] - 1) : r[i] # 10
        /\ TailArgs(SubSeq(r, x[1] + x[2] + 1, Len(r))) # {}}
NoMatch == [matched |-> FALSE, type |-> <<>>, prefix |-> <<>>, arg1 |-> <<>>, arg2 |-> <<>>,
            arg3 |-> NoSerial]
\* re.match of the pattern: the prefix and arg1 end at the first colon after
\* their start; of the ways arg2 can match, the greedy search finds the one
\* with the longest field, then the longest bracket
parse_visa_resource_string(resource_string) ==
    LET s == resource_string
        i == Colon(s)
        prefix == SubSeq(s, 1, i - 1)
        s1 == SubSeq(s, i + 2, Len(s))
        j == Colon(s1)
        arg1 == SubSeq(s1, 1, j - 1)
        r == SubSeq(s1, j + 2, Len(s1))
        cuts == Arg2Cuts(r)
        best == CHOOSE x \in cuts : \A y \in cuts :
                    y[1] < x[1] \/ (y[1] = x[1] /\ y[2] <= x[2])
    IN IF /\ Len(prefix) >= 3
          /\ SameText(SubSeq(prefix, 1, 3), Usb)
          /\ \A k \in 4..Len(prefix) : IsDigit(prefix[k])
          /\ SubSeq(s, i, i + 1) = Sep
          /\ IsField(arg1)
          /\ SubSeq(s1, j, j + 1) = Sep
          /\ cuts # {}
       THEN [matched |-> TRUE,
             type |-> [k \in 1..3 |-> Upper(prefix[k])],
             prefix |-> prefix,
             arg1 |-> arg1,
             arg2 |-> SubSeq(r, 1, best[1] + best[2]),
             arg3 |-> CHOOSE a \in TailArgs(SubSeq(r, best[1] + best[2] + 1, Len(r))) : TRUE]
       ELSE NoMatch

\* int(t, 0) of a decimal or hexadecimal literal, -1 where it raises
\* ValueError: a decimal literal other than zero has no leading zero
HexValue(c) == IF IsDigit(c) THEN c - 48 ELSE Upper(c) - 55
RECURSIVE Hexadecimal(_)
Hexadecimal(t) ==
    IF t = <<>> THEN 0 ELSE 16 * Hexadecimal(SubSeq(t, 1, Len(t) - 1)) + HexValue(t[Len(t)])
IntBase0(t) ==
    IF t # <<>> /\ \A k \in 1..Len(t) : IsDigit(t[k])
    THEN IF Len(t) > 1 /\ t[1] = 48 /\ Decimal(t) # 0 THEN -1 ELSE Decimal(t)
    ELSE IF /\ Len(t) >= 3
            /\ t[1] = 48
            /\ Upper(t[2]) = 88
            /\ \A k \in 3..Len(t) : IsDigit(t[k]) \/ Upper(t[k]) \in 65..70
    THEN Hexadecimal(SubSeq(t, 3, Len(t)))
    ELSE -1

\* find_device: whether the device of the run answers to these ids
Found(idVendor, idProduct, iSerial) ==
    /\ usb.dev.idVendor = idVendor
    /\ \/ usb.dev.idProduct = idProduct
       \/ (idProduct # usb.dev.idProduct /\ FixedProduct(usb.dev.idVendor, usb.dev.idProduct) = idProduct)
    /\ iSerial = NoSerial \/ iSerial = usb.dev.serial_number

\* list_resources with one device connected: op keeps what it formatted
ListResources ==
    /\ pc = "list_resources"
    /\ LET idProduct == FixedProduct(usb.dev.idVendor, usb.dev.idProduct)
       IN /\ op' = [name |-> "list_resources", idVendor |-> usb.dev.idVendor,
                    idProduct |-> idProduct, iSerial |-> usb.dev.serial_number]
          /\ result' = [op |-> "list_resources", status |-> "ok", errno |-> 0,
                        origin |-> "none",
                        value |-> ResourceString(usb.dev.idVendor, idProduct,
                                                 usb.dev.serial_number)]
    /\ pc' = "init"
    /\ UNCHANGED <<self, usb, stack, wire, hist>>

\* Instrument(resource): the ids and the serial number it takes from the
\* string, and whether it finds the device
Construct ==
    /\ pc = "init"
    /\ LET res == parse_visa_resource_string(result.value)
           idVendor == IntBase0(res.arg1)
           idProduct == IntBase0(res.arg2)
           failed(t, msg) == [op |-> "__init__", status |-> t, errno |-> 0, origin |-> msg,
                              value |-> <<>>]
       IN result' =
             IF ~res.matched THEN failed("UsbtmcException", "Invalid resource string")
             ELSE IF idVendor = -1 \/ idProduct = -1 THEN failed("ValueError", "int")
             ELSE [op |-> "__init__",
                   status |-> IF Found(idVendor, idProduct, res.arg3) THEN "ok"
                              ELSE "UsbtmcException",
                   errno |-> 0,
                   origin |-> IF Found(idVendor, idProduct, res.arg3) THEN "none"
                              ELSE "Device not found",
                   value |-> <<idVendor, idProduct, res.arg3>>]
    /\ pc' = "idle"
    /\ UNCHANGED <<self, usb, stack, op, wire, hist>>

\* devices with small ids or in firmware update mode, with every serial
\* number of spaces, colons and letters up to MaxSerial characters, or none
InitVisa ==
    /\ \E vid \in 0..MaxId \cup {2391}, pid \in 0..MaxId \cup {10264, 16920, 17432},
          serial \in Strings({32, 58, 65}, MaxSerial) \cup {NoSerial} :
           usb = [dev |-> [idVendor |-> vid, idProduct |-> pid, serial_number |-> serial]]
    /\ self = InitSelf(MaxMts)
    /\ pc = "list_resources"
    /\ stack = <<>>
    /\ op = NoOp
    /\ wire = <<>>
    /\ result = NoResult
    /\ hist = InitHist

NextVisa ==
    \/ ListResources
    \/ Construct

SpecVisa == InitVisa /\ [][NextVisa]_vars

\* everything that writes to the bulk-OUT endpoint: write_raw, read_raw and
\* trigger, on an instrument with the USB488 trigger and on one without
InitBulkOut ==
    InitWith({GenericDev, Usb488Dev}, 1..MaxMts, {{}}, {1}, {{"eio"}}, {FALSE}, {65})

NextBulkOut ==
    \/ hist.calls < MaxCalls /\ WriteRaw
    \/ hist.calls < MaxCalls /\ ReadRaw
    \/ hist.calls < MaxCalls /\ Trigger
    \/ OpenBegin
    \/ ClearInitiate
    \/ ClearPoll
    \/ ClearHalt
    \/ GetCapabilities
    \/ WriteChunk
    \/ ReadRequest
    \/ ReadResponse
    \/ TriggerBody

SpecBulkOut == InitBulkOut /\ [][NextBulkOut]_vars

\* read_raw from a device that may declare more bytes than it sends, with
\* and without EOM
InitShort ==
    InitWith({GenericDev}, 1..MaxMts, {{}}, {1}, {{"short", "more", "partial"}}, {FALSE}, {65})

NextShort ==
    \/ hist.calls < MaxCalls /\ ReadRaw
    \/ OpenBegin
    \/ ClearInitiate
    \/ ClearPoll
    \/ ClearHalt
    \/ GetCapabilities
    \/ ReadRequest
    \/ ReadResponse

SpecShort == InitShort /\ [][NextShort]_vars

\* clear on a device that may refuse it, leave it pending or fail a transfer
InitClear ==
    InitWith({GenericDev}, {MaxMts}, {{}}, {1}, {{"clear", "pending"}}, {FALSE}, {65})

NextClear ==
    \/ hist.calls < MaxCalls /\ Clear
    \/ OpenBegin
    \/ ClearInitiate
    \/ ClearPoll
    \/ ClearHalt
    \/ GetCapabilities

SpecClear == InitClear /\ [][NextClear]_vars

\* read_raw on a Rigol instrument whose packets may be short of the size
\* the header declares, or empty
InitRigolShort ==
    InitWith({RigolDev}, {MaxMts}, {{}}, {1}, {{"partial", "short"}}, {FALSE}, {65})

NextRigolShort ==
    \/ hist.calls < MaxCalls /\ ReadRaw
    \/ OpenBegin
    \/ ClearInitiate
    \/ ClearPoll
    \/ ClearHalt
    \/ GetCapabilities
    \/ ReadRequest
    \/ ReadResponse

SpecRigolShort == InitRigolShort /\ [][NextRigolShort]_vars

\* reads from a Rigol instrument whose header declares the whole answer
InitRigolWhole ==
    InitWith({RigolDev}, 1..MaxMts, {{}}, {1}, {{"whole"}}, {FALSE}, {65})

NextRigolWhole ==
    \/ hist.calls < MaxCalls /\ ReadRaw
    \/ OpenBegin
    \/ ClearInitiate
    \/ ClearPoll
    \/ ClearHalt
    \/ GetCapabilities
    \/ ReadRequest
    \/ ReadResponse

SpecRigolWhole == InitRigolWhole /\ [][NextRigolWhole]_vars

\* the capability probe, in open and on its own, on instruments with and
\* without USB488 that answer any capability bits, or refuse the probe
InitCaps ==
    InitWith({[d EXCEPT !.caps4 = b4, !.caps5 = b5] :
                 d \in {GenericDev, Usb488Dev}, b4 \in 0..15, b5 \in 0..1},
             {MaxMts}, {{}}, {1}, {{"caps"}}, {FALSE}, {65})

NextCaps ==
    \/ Open
    \/ Close
    \/ CallGetCapabilities
    \/ OpenBegin
    \/ ClearInitiate
    \/ ClearPoll
    \/ ClearHalt
    \/ GetCapabilities

SpecCaps == InitCaps /\ [][NextCaps]_vars

\* every public operation on sessions that are opened, closed and opened
\* again, where open may fail at any of its steps
InitReopen ==
    InitWith({GenericDev, Usb488Dev, AdvantestDev}, {MaxMts}, {{}}, {1},
             {{"open", "clear", "caps", "pulse"}}, {FALSE}, {65})

NextReopen ==
    \/ hist.calls < MaxCalls /\ WriteRaw
    \/ hist.calls < MaxCalls /\ ReadRaw
    \/ hist.calls < MaxCalls /\ ReadStb
    \/ hist.calls < MaxCalls /\ Trigger
    \/ hist.calls < MaxCalls /\ Clear
    \/ hist.calls < MaxCalls /\ Pulse
    \/ hist.calls < MaxCalls /\ CallGetCapabilities
    \/ hist.calls < MaxCalls /\ Lock
    \/ hist.calls < MaxCalls /\ Unlock
    \/ hist.calls < MaxCalls /\ Open
    \/ hist.calls < MaxCalls /\ Close
    \/ OpenBegin
    \/ ClearInitiate
    \/ ClearPoll
    \/ ClearHalt
    \/ GetCapabilities
    \/ PulseBody
    \/ WriteChunk
    \/ ReadRequest
    \/ ReadResponse
    \/ TriggerBody
    \/ ReadStbRequest
    \/ StbInterrupt
    \/ Ask
    \/ AskRead
    \/ AskFinally
    \/ StbInt
    \/ LockBody
    \/ UnlockBody

SpecReopen == InitReopen /\ [][NextReopen]_vars

\* every operation that may touch the bTag counter, on an instrument with
\* USB488 and on one without, with timeouts and their aborts, close and
\* re-open
InitTags ==
    InitWith({GenericDev, Usb488Dev}, {MaxMts}, {{}}, {1}, {{"timeout"}}, {FALSE}, {65})

NextTags ==
    \/ hist.calls < MaxCalls /\ WriteRaw
    \/ hist.calls < MaxCalls /\ ReadRaw
    \/ hist.calls < MaxCalls /\ Trigger
    \/ hist.calls < MaxCalls /\ ReadStb
    \/ hist.calls < MaxCalls /\ Open
    \/ hist.calls < MaxCalls /\ Close
    \/ hist.calls < MaxCalls /\ Clear
    \/ hist.calls < MaxCalls /\ CallGetCapabilities
    \/ OpenBegin
    \/ ClearInitiate
    \/ ClearPoll
    \/ ClearHalt
    \/ GetCapabilities
    \/ WriteChunk
    \/ AbortBulkOut
    \/ AbortOutPoll
    \/ AbortOutHalt
    \/ ReadRequest
    \/ ReadResponse
    \/ AbortBulkIn
    \/ AbortInDrain
    \/ AbortInPoll
    \/ TriggerBody
    \/ ReadStbRequest
    \/ StbInterrupt
    \/ Ask
    \/ AskRead
    \/ AskFinally
    \/ StbInt

SpecTags == InitTags /\ [][NextTags]_vars

\* timeouts of write_raw and read_raw, also on a Rigol instrument whose
\* first packet is short of the size it declares
InitAbortTag ==
    InitWith({GenericDev, RigolDev}, {MaxMts}, {{}}, {1}, {{"timeout", "short"}}, {FALSE}, {65})

NextAbortTag ==
    \/ hist.calls < MaxCalls /\ WriteRaw
    \/ hist.calls < MaxCalls /\ ReadRaw
    \/ OpenBegin
    \/ ClearInitiate
    \/ ClearPoll
    \/ ClearHalt
    \/ GetCapabilities
    \/ WriteChunk
    \/ AbortBulkOut
    \/ AbortOutPoll
    \/ AbortOutHalt
    \/ ReadRequest
    \/ ReadResponse
    \/ AbortBulkIn
    \/ AbortInDrain
    \/ AbortInPoll

SpecAbortTag == InitAbortTag /\ [][NextAbortTag]_vars

\* ask, ask_raw, lock and unlock on an Advantest instrument and on another
\* one, where the lock transfers and the bulk transfers may fail
InitAsk ==
    InitWith({AdvantestDev, GenericDev}, {MaxMts}, {{}}, {1},
             {{"lock", "eio"}}, {FALSE}, {49})

NextAsk ==
    \/ hist.calls < MaxCalls /\ CallAsk
    \/ hist.calls < MaxCalls /\ Lock
    \/ hist.calls < MaxCalls /\ Unlock
    \/ OpenBegin
    \/ ClearInitiate
    \/ ClearPoll
    \/ ClearHalt
    \/ GetCapabilities
    \/ Ask
    \/ LockBody
    \/ WriteChunk
    \/ AskRead
    \/ ReadRequest
    \/ ReadResponse
    \/ AskFinally
    \/ UnlockBody

SpecAsk == InitAsk /\ [][NextAsk]_vars

\* read_raw on a Rigol instrument that answers IEEE 488.2 blocks
IeeeBlock(l, n) ==
    <<35, 48 + l>> \o [i \in 1..l |-> 48 + (IF i = l THEN n % 10 ELSE (n \div 10) % 10)]
                   \o [i \in 1..n |-> 65]
InitRigol ==
    /\ \E l \in {1, 2}, n \in 1..MaxBlock, tail \in {<<>>, <<10>>} :
           usb = [Env(RigolDev, {}, 1, {"ieee"}, FALSE, {65})
                     EXCEPT !.echo.msg = IeeeBlock(l, n) \o tail]
    /\ self = InitSelf(MaxBlock + 4)
    /\ pc = "idle"
    /\ stack = <<>>
    /\ op = NoOp
    /\ wire = <<>>
    /\ result = NoResult
    /\ hist = InitHist

NextRigol ==
    \/ hist.calls < MaxCalls /\ ReadRaw
    \/ OpenBegin
    \/ ClearInitiate
    \/ ClearPoll
    \/ ClearHalt
    \/ GetCapabilities
    \/ ReadRequest
    \/ ReadResponse

SpecRigol == InitRigol /\ [][NextRigol]_vars

\* the session's life: open, close, clear and the capability probe on
\* devices with and without a usable interface, with kernel drivers bound,
\* where every transfer of open and close may fail
InitLife ==
    InitWith({GenericDev, TwoCfgDev, NoBulkInDev, NotTmcDev, ManyEpsDev, SecondIfaceDev,
              LateTmcDev},
             {MaxMts}, SUBSET {0, 1},
             {0, 1, 2}, {{"open", "clear", "caps", "close"}}, {FALSE}, {65})

NextLife ==
    \/ Open
    \/ Close
    \/ Clear
    \/ CallGetCapabilities
    \/ OpenBegin
    \/ ClearInitiate
    \/ ClearPoll
    \/ ClearHalt
    \/ GetCapabilities

SpecLife == InitLife /\ [][NextLife]_vars

\* both engines on an instrument whose bulk transfers time out and whose
\* abort requests may be refused, stay pending for a while, or fail
InitAbort ==
    InitWith({GenericDev}, 1..MaxMts, {{}}, {1}, {{"timeout", "abort", "pending"}}, {FALSE}, {65})

NextAbort ==
    \/ WriteRaw
    \/ ReadRaw
    \/ OpenBegin
    \/ ClearInitiate
    \/ ClearPoll
    \/ ClearHalt
    \/ GetCapabilities
    \/ WriteChunk
    \/ AbortBulkOut
    \/ AbortOutPoll
    \/ AbortOutHalt
    \/ ReadRequest
    \/ ReadResponse
    \/ AbortBulkIn
    \/ AbortInDrain
    \/ AbortInPoll

SpecAbort == InitAbort /\ [][NextAbort]_vars

\* a few calls on an instrument that may be stuck.  The session is one
\* synchronous thread: a call that has started takes its next step.
InitStuck ==
    InitWith({GenericDev}, {1}, {{}}, {1}, {{"timeout"}}, BOOLEAN, {65})

Steps ==
    \/ OpenBegin
    \/ ClearInitiate
    \/ ClearPoll
    \/ ClearHalt
    \/ GetCapabilities
    \/ WriteChunk
    \/ AbortBulkOut
    \/ AbortOutPoll
    \/ AbortOutHalt
    \/ ReadRequest
    \/ ReadResponse
    \/ AbortBulkIn
    \/ AbortInDrain
    \/ AbortInPoll

NextStuck ==
    \/ hist.calls < MaxCalls /\ WriteRaw
    \/ hist.calls < MaxCalls /\ ReadRaw
    \/ Steps

FairSpecStuck == InitStuck /\ [][NextStuck]_vars /\ WF_vars(Steps)


(***************************************************************************)
(* What the log of a call shows.                                           *)
(***************************************************************************)
\* the bulk-OUT buffers of the running (or last) public call, in order
BulkOut == SelectSeq(wire, LAMBDA e : e.kind = "bulk_out")
IsMsgOut(e) == e.kind = "bulk_out" /\ e.data[1] = USBTMC_MSGID_DEV_DEP_MSG_OUT
\* the fields of a transmitted buffer, read back from its bytes
HdrTag(d) == d[2]
HdrSize(d) == UnLE32(SubSeq(d, 5, 8))
HdrEom(d) == d[9] % 2 = 1
Body(d) == SubSeq(d, USBTMC_HEADER_SIZE + 1, USBTMC_HEADER_SIZE + HdrSize(d))
\* the complement of a byte, bit by bit
RECURSIVE NotBits(_, _)
NotBits(b, n) == IF n = 0 THEN 0 ELSE (1 - (b % 2)) + 2 * NotBits(b \div 2, n - 1)
\* the tag after t in the rotation 1, 2, ..., 255, 1, ...
Rotate(t) == IF t = 255 THEN 1 ELSE t + 1
Finished(name) == pc = "idle" /\ result.op = name

(***************************************************************************)
(* C1: every DEV_DEP_MSG_OUT header write_raw transmits has a bTag in      *)
(* 1..255 and the bTag's bitwise complement in the next byte, and the      *)
(* bTags of successive headers, within a call and from one call to the     *)
(* next, follow 1, 2, ..., 255, 1, ... without ever being 0.               *)
(***************************************************************************)
C1_BtagRotation ==
    /\ \A i \in 1..Len(wire) :
          IsMsgOut(wire[i]) =>
             /\ HdrTag(wire[i].data) \in 1..255
             /\ wire[i].data[3] = NotBits(HdrTag(wire[i].data), 8)
    /\ \A i \in 1..Len(BulkOut) - 1 :
          HdrTag(BulkOut[i + 1].data) = Rotate(HdrTag(BulkOut[i].data))
    /\ BulkOut # <<>> => HdrTag(BulkOut[Len(BulkOut)].data) = hist.sent_btag
    /\ hist.sent_btag # 0 =>
          hist.sent_btag = (IF hist.prev_btag = 0 THEN 1 ELSE Rotate(hist.prev_btag))

\* the rotation wraps from 255 to 1 inside a multi-chunk write
C1_Witness ==
    /\ Len(BulkOut) >= 2
    /\ IsMsgOut(BulkOut[Len(BulkOut)])
    /\ hist.prev_btag = 255
    /\ hist.sent_btag = 1

(***************************************************************************)
(* C2: a write_raw of a non-empty payload P that completes has transmitted *)
(* chunks of at most max_transfer_size bytes each, whose payloads in       *)
(* transmission order concatenate to P; each header declares its chunk's   *)
(* size, and the final chunk's header alone has EOM set.                   *)
(***************************************************************************)
C2_Chunking ==
    (Finished("write_raw") /\ result.status = "ok" /\ op.data # <<>>) =>
        LET n == Len(BulkOut) IN
        /\ n >= 1
        /\ Cat([i \in 1..n |-> Body(BulkOut[i].data)]) = op.data
        /\ \A i \in 1..n :
              LET d == BulkOut[i].data IN
              /\ IsMsgOut(BulkOut[i])
              /\ HdrSize(d) \in 1..self.max_transfer_size
              /\ Len(Body(d)) = HdrSize(d)
              /\ Len(d) - USBTMC_HEADER_SIZE - HdrSize(d) \in 0..3
              /\ HdrEom(d) <=> (i = n)

\* a payload sent in three chunks
C2_Witness ==
    /\ Finished("write_raw")
    /\ result.status = "ok"
    /\ Len(BulkOut) = 3
    /\ self.max_transfer_size = 1


(***************************************************************************)
(* C3: in read_raw, a bulk-IN response whose bTag differs from the bTag of *)
(* the request just sent, or whose complement byte is not the bitwise NOT  *)
(* of its bTag, makes the read fail with a protocol error, so that its     *)
(* body is never part of the data returned.                                *)
(***************************************************************************)
\* the bulk-OUT request sent last before the log's entry i
RequestBefore(i) ==
    wire[Max({j \in 1..i - 1 : wire[j].kind = "bulk_out"})]
HasHeader(e) == e.kind = "bulk_in" /\ e.err = 0 /\ Len(e.data) >= USBTMC_HEADER_SIZE
TagMismatch(i) ==
    /\ HasHeader(wire[i])
    /\ \/ wire[i].data[2] # HdrTag(RequestBefore(i).data)
       \/ wire[i].data[3] # NotBits(wire[i].data[2], 8)
C3_TagMismatchFails ==
    (Finished("read_raw") /\ \E i \in 1..Len(wire) : TagMismatch(i)) =>
        result.status = "UsbtmcException"

(***************************************************************************)
(* The log of a call after its bulk transfer timed out.                    *)
(***************************************************************************)
TimedOut(e) == e.kind \in {"bulk_out", "bulk_in"} /\ e.err = ETIMEDOUT
TimeoutAt == CHOOSE i \in 1..Len(wire) : TimedOut(wire[i])
HadTimeout == \E i \in 1..Len(wire) : TimedOut(wire[i])
\* what the log holds after the transfer that timed out
AfterTimeout == SubSeq(wire, TimeoutAt + 1, Len(wire))
IsCtrl(e, req) == e.kind = "ctrl" /\ e.req = req
Succeeded(e) == e.err = 0 /\ e.st = USBTMC_STATUS_SUCCESS
\* t[a..b] is a polling loop of request req: every poll but the last is
\* answered PENDING, and the last one is not
PollLoop(t, a, b, req) ==
    /\ a <= b
    /\ \A j \in a..b : IsCtrl(t[j], req)
    /\ \A j \in a..b - 1 : IsPending(t[j])
    /\ ~IsPending(t[b])
\* the caller gets the timeout of the bulk transfer
GotTimeout ==
    /\ result.status = "USBError"
    /\ result.errno = ETIMEDOUT
    /\ result.origin = wire[TimeoutAt].kind

(***************************************************************************)
(* C5 as stated: after a bulk-OUT timeout in write_raw there is exactly    *)
(* one INITIATE_ABORT_BULK_OUT, then CHECK_ABORT_BULK_OUT_STATUS polls     *)
(* until the status is not PENDING, then a clear-halt on bulk-out, and     *)
(* then the timeout reaches the caller; no further chunk is sent.          *)
(***************************************************************************)
C5_AbortOutAlwaysComplete ==
    (Finished("write_raw") /\ HadTimeout) =>
        LET t == AfterTimeout
            n == Len(t)
        IN /\ n >= 3
           /\ IsCtrl(t[1], USBTMC_REQUEST_INITIATE_ABORT_BULK_OUT)
           /\ PollLoop(t, 2, n - 1, USBTMC_REQUEST_CHECK_ABORT_BULK_OUT_STATUS)
           /\ t[n].kind = "clear_halt"
           /\ GotTimeout

(***************************************************************************)
(* C5 as amended: after a bulk-OUT timeout in write_raw there is exactly   *)
(* one INITIATE_ABORT_BULK_OUT and no further chunk; only when its status  *)
(* is SUCCESS do CHECK_ABORT_BULK_OUT_STATUS polls follow, until the       *)
(* status is not PENDING; only when that last status is SUCCESS does a     *)
(* clear-halt on bulk-out follow; the call ends after these steps, with    *)
(* the timeout unless one of the abort's own transfers raised.             *)
(***************************************************************************)
C5_AbortOutSequence ==
    (Finished("write_raw") /\ HadTimeout) =>
        LET t == AfterTimeout
            n == Len(t)
            polls == {j \in 1..n : IsCtrl(t[j], USBTMC_REQUEST_CHECK_ABORT_BULK_OUT_STATUS)}
            m == 1 + Cardinality(polls)
        IN /\ n >= 1
           /\ IsCtrl(t[1], USBTMC_REQUEST_INITIATE_ABORT_BULK_OUT)
           /\ \A j \in 2..n : t[j].kind # "bulk_out"
                              /\ ~IsCtrl(t[j], USBTMC_REQUEST_INITIATE_ABORT_BULK_OUT)
           /\ IF ~Succeeded(t[1]) THEN n = 1
              ELSE /\ PollLoop(t, 2, m, USBTMC_REQUEST_CHECK_ABORT_BULK_OUT_STATUS)
                   /\ IF Succeeded(t[m])
                      THEN n = m + 1 /\ t[n].kind = "clear_halt" /\ t[n].idx = self.bulk_out_ep
                      ELSE n = m
           /\ IF \E j \in 1..n : t[j].err # 0
              THEN result.status = "USBError" /\ result.origin = "abort_bulk_out"
              ELSE GotTimeout

\* a timeout in the second chunk, an abort that stays pending, succeeds and
\* clears the halt
C5_Witness ==
    /\ Finished("write_raw")
    /\ HadTimeout
    /\ Len(BulkOut) = 2
    /\ Len(AfterTimeout) >= 4
    /\ AfterTimeout[Len(AfterTimeout)].kind = "clear_halt"
    /\ GotTimeout

(***************************************************************************)
(* C6 as stated: after a timeout in read_raw there is an                   *)
(* INITIATE_ABORT_BULK_IN, then the drain of bulk-IN, then                 *)
(* CHECK_ABORT_BULK_IN_STATUS polls until the status is not PENDING, and   *)
(* then the timeout reaches the caller.                                    *)
(***************************************************************************)
C6_AbortInAlwaysComplete ==
    (Finished("read_raw") /\ HadTimeout) =>
        LET t == AfterTimeout
            n == Len(t)
        IN /\ n >= 3
           /\ IsCtrl(t[1], USBTMC_REQUEST_INITIATE_ABORT_BULK_IN)
           /\ t[2].kind = "drain"
           /\ PollLoop(t, 3, n, USBTMC_REQUEST_CHECK_ABORT_BULK_IN_STATUS)
           /\ GotTimeout

(***************************************************************************)
(* C6 as amended: after a timeout in read_raw there is one                 *)
(* INITIATE_ABORT_BULK_IN; only when its status is SUCCESS does the drain  *)
(* of bulk-IN follow, and after a drain that did not raise the             *)
(* CHECK_ABORT_BULK_IN_STATUS polls, until the status is not PENDING; no   *)
(* drain comes before the INITIATE and no poll before the drain; the call  *)
(* ends after these steps, with the timeout unless one of the abort's own  *)
(* transfers raised.                                                       *)
(***************************************************************************)
C6_AbortInSequence ==
    (Finished("read_raw") /\ HadTimeout) =>
        LET t == AfterTimeout
            n == Len(t)
        IN /\ n >= 1
           /\ IsCtrl(t[1], USBTMC_REQUEST_INITIATE_ABORT_BULK_IN)
           /\ \A j \in 2..n : t[j].kind \notin {"bulk_out", "bulk_in"}
                              /\ ~IsCtrl(t[j], USBTMC_REQUEST_INITIATE_ABORT_BULK_IN)
           /\ \A j \in 1..TimeoutAt : wire[j].kind # "drain"
                  /\ ~IsCtrl(wire[j], USBTMC_REQUEST_CHECK_ABORT_BULK_IN_STATUS)
           /\ IF ~Succeeded(t[1]) THEN n = 1
              ELSE /\ n >= 2
                   /\ t[2].kind = "drain"
                   /\ t[2].idx = self.bulk_in_ep
                   /\ IF t[2].err # 0 THEN n = 2
                      ELSE PollLoop(t, 3, n, USBTMC_REQUEST_CHECK_ABORT_BULK_IN_STATUS)
           /\ IF \E j \in 1..n : t[j].err # 0
              THEN result.status = "USBError" /\ result.origin = "abort_bulk_in"
              ELSE GotTimeout

\* a bulk-IN read that timed out, an abort that drained and polled twice
C6_Witness ==
    /\ Finished("read_raw")
    /\ HadTimeout
    /\ wire[TimeoutAt].kind = "bulk_in"
    /\ Len(AfterTimeout) >= 4
    /\ AfterTimeout[2].kind = "drain"
    /\ GotTimeout

(***************************************************************************)
(* C7: when a bulk transfer of write_raw or read_raw times out, the caller *)
(* receives that timeout, whatever happens to the abort sub-protocol (a    *)
(* failure of one of its transfers is swallowed).                          *)
(***************************************************************************)
C7_TimeoutSurvivesAbort ==
    ((Finished("write_raw") \/ Finished("read_raw")) /\ HadTimeout) => GotTimeout

(***************************************************************************)
(* C8: the abort sub-protocols always return control: an abort that has    *)
(* started eventually ends, also on a device that answers every status     *)
(* poll with PENDING.                                                      *)
(***************************************************************************)
InAbort ==
    pc \in {"abort_bulk_out", "abort_out_poll", "abort_out_halt",
            "abort_bulk_in", "abort_in_drain", "abort_in_poll"}
C8_AbortEnds == InAbort ~> ~InAbort

(***************************************************************************)
(* C4: after any number of read_stb calls on a USB488 device, successful   *)
(* or failing, last_rstb_btag (0 before the first call) and the wValue of  *)
(* every READ_STATUS_BYTE request are in 2..127, and the tag after 127 is  *)
(* 2.                                                                      *)
(***************************************************************************)
C4_RstbBtagRange ==
    /\ self.last_rstb_btag \in {0} \cup 2..127
    /\ \A i \in 1..Len(wire) :
          IsCtrl(wire[i], USB488_READ_STATUS_BYTE) => wire[i].val \in 2..127

(***************************************************************************)
(* C9: whenever connected is true after a public operation has returned or *)
(* raised, both bulk endpoints are set and CLEAR followed by               *)
(* GET_CAPABILITIES have completed successfully for the current open; an   *)
(* open in which CLEAR or the capability probe fails leaves the session    *)
(* unconnected.                                                            *)
(***************************************************************************)
C9_ConnectedMeansReady ==
    (pc = "idle" /\ self.connected) =>
        /\ self.bulk_in_ep # 0
        /\ self.bulk_out_ep # 0
        /\ hist.open_clear
        /\ hist.open_caps

(***************************************************************************)
(* C10: close is idempotent.  On an unconnected session it performs no     *)
(* USB operation; on a connected session it ends with connected = false    *)
(* and an empty reattach list; and over any sequence of open and close     *)
(* calls no interface recorded by an open is reattached by a close later   *)
(* than the first close after that open.                                   *)
(***************************************************************************)
C10_CloseConsumesOnce ==
    /\ Finished("close") => ~self.connected
    /\ (Finished("close") /\ wire # <<>>) => self.reattach = <<>>
    /\ (Finished("close") /\ wire = <<>>) => hist.survived = Len(self.reattach)
    /\ ~hist.late

(***************************************************************************)
(* C11: close on a connected session restores the original configuration   *)
(* if open changed it and attempts to reattach the kernel driver of every  *)
(* interface recorded at open time; a failure of the restore or of one     *)
(* reattach does not prevent the reattach attempts on the remaining        *)
(* interfaces and is not raised to the caller.                             *)
(***************************************************************************)
\* the close that just ended found the session connected
ClosedConnected == Finished("close") /\ wire # <<>>
Attempted(kind, val) == \E i \in 1..Len(wire) : wire[i].kind = kind /\ wire[i].val = val
C11_CloseBestEffort ==
    ClosedConnected =>
        /\ result.status = "ok"
        /\ hist.closed.changed => \E i \in 1..Len(wire) : wire[i].kind = "set_configuration"
        /\ \A k \in 1..Len(hist.closed.reattach) : Attempted("attach", hist.closed.reattach[k])

(***************************************************************************)
(* C12: on a USB488 device with an interrupt-in endpoint, a read_stb whose *)
(* control reply is SUCCESS and echoes the request's bTag reads the        *)
(* interrupt-in packet, returns its byte 1 when its byte 0 is bTag | 0x80  *)
(* and raises the tag-mismatch error when byte 0 differs; a device that    *)
(* always answers bTag | 0x80 never causes a mismatch error.               *)
(***************************************************************************)
\* b | 0x80, of a byte b
Or80(b) == IF b % 256 >= 128 THEN b % 256 ELSE (b % 256) + 128
\* the READ_STATUS_BYTE request of the call, 0 when it made none
StbRequestAt ==
    LET hits == {i \in 1..Len(wire) : IsCtrl(wire[i], USB488_READ_STATUS_BYTE)}
    IN IF hits = {} THEN 0 ELSE Max(hits)
C12_StbInterrupt ==
    (Finished("read_stb") /\ self.interrupt_in_ep # 0 /\ StbRequestAt # 0) =>
        LET q == wire[StbRequestAt]
            echoed == q.err = 0 /\ q.data[1] = USBTMC_STATUS_SUCCESS /\ q.data[2] = q.val
        IN echoed =>
            /\ Len(wire) = StbRequestAt + 1
            /\ wire[Len(wire)].kind = "intr_in"
            /\ LET p == wire[Len(wire)]
               IN p.err = 0 =>
                    IF p.data[1] = Or80(q.val)
                    THEN result.status = "ok" /\ result.value = <<p.data[2]>>
                    ELSE /\ result.status = "UsbtmcException"
                         /\ result.origin = "Read status byte btag mismatch"

(***************************************************************************)
(* C13 as stated: against an echo device, write_raw(b) followed by         *)
(* read_raw() returns exactly b, for every byte string b, the empty one    *)
(* and those longer than max_transfer_size included.                       *)
(***************************************************************************)
\* a read_raw() has ended that was called right after a write_raw returned
ReadAfterWrite ==
    /\ Finished("read_raw")
    /\ op.num = -1
    /\ hist.written.call > 0
    /\ hist.written.call = hist.calls - 1
C13_EchoRoundTripAll ==
    ReadAfterWrite => result.status = "ok" /\ result.value = hist.written.data

(***************************************************************************)
(* C13 as amended: on a session without vendor quirks, against an echo     *)
(* device, write_raw(b) followed by read_raw() returns exactly b for every *)
(* non-empty byte string b, those longer than max_transfer_size included.  *)
(***************************************************************************)
C13_EchoRoundTrip ==
    (ReadAfterWrite /\ hist.written.data # <<>>) =>
        result.status = "ok" /\ result.value = hist.written.data

\* a payload longer than max_transfer_size, of different bytes, came back
C13_Witness ==
    /\ ReadAfterWrite
    /\ Len(hist.written.data) > self.max_transfer_size
    /\ hist.written.data[1] # hist.written.data[2]
    /\ result.value = hist.written.data

(***************************************************************************)
(* C14: on an opened Advantest session, ask and ask_raw called while the   *)
(* session is not locked issue the lock transfer (wValue 1) before the     *)
(* first bulk-OUT transfer and the unlock transfer (wValue 0) after        *)
(* everything else; advantest_locked after the call is what it was before  *)
(* the call, whether the call returns or raises; called while the session  *)
(* is locked, they issue no lock and no unlock transfer.                   *)
(***************************************************************************)
IsLock(e, val) == IsCtrl(e, ADVANTEST_LOCK_REQUEST) /\ e.val = val
LockTransfers == SelectSeq(wire, LAMBDA e : IsCtrl(e, ADVANTEST_LOCK_REQUEST))
AskDone ==
    /\ pc = "idle"
    /\ result.op \in {"ask", "ask_raw"}
    /\ op.was_connected
    /\ self.advantest_quirk
C14_AdvantestLock ==
    AskDone =>
        /\ self.advantest_locked = op.was_locked
        /\ op.was_locked => LockTransfers = <<>>
        /\ ~op.was_locked =>
              /\ Len(LockTransfers) = 2
              /\ IsLock(wire[1], 1)
              /\ IsLock(wire[Len(wire)], 0)
C14_Witness ==
    /\ AskDone
    /\ ~op.was_locked
    /\ result.status = "ok"
    /\ IsLock(wire[1], 1)
    /\ IsLock(wire[Len(wire)], 0)
    /\ \E i \in 2..(Len(wire) - 1) : wire[i].kind = "bulk_in"

(***************************************************************************)
(* C15: with rigol_quirk_ieee_block set, when the body of the first        *)
(* bulk-IN packet begins with '#', a digit L and L decimal digits giving   *)
(* N, read_raw sends no further request, reads header-less packets until   *)
(* N + L + 2 body bytes are accumulated, and returns exactly the first     *)
(* N + L + 2 of them, whatever TransferSize the header declares.  Stated   *)
(* for the calls whose num does not ask for less than the block: num <= 0  *)
(* or num >= N + L + 2.                                                    *)
(***************************************************************************)
BulkIn == SelectSeq(wire, LAMBDA e : e.kind = "bulk_in" /\ e.err = 0)
FirstBody == SubSeq(BulkIn[1].data, USBTMC_HEADER_SIZE + 1, Len(BulkIn[1].data))
\* the bodies read by the call, one after the other
RECURSIVE Gathered(_)
Gathered(k) == IF k <= 1 THEN FirstBody ELSE Gathered(k - 1) \o BulkIn[k].data
HasBlockHeader(b) ==
    /\ Len(b) >= 2
    /\ b[1] = 35
    /\ IsDigit(b[2])
    /\ b[2] > 48
    /\ Len(b) >= b[2] - 48 + 2
    /\ \A i \in 3..(b[2] - 48 + 2) : IsDigit(b[i])
BlockLength(b) == Decimal(SubSeq(b, 3, b[2] - 48 + 2)) + (b[2] - 48) + 2
BlockRead ==
    /\ Finished("read_raw")
    /\ self.rigol_quirk_ieee_block
    /\ BulkIn # <<>>
    /\ HasBlockHeader(FirstBody)
ReturnsBlock ==
    /\ result.status = "ok"
    /\ Len(BulkOut) = 1
    /\ Len(Gathered(Len(BulkIn))) >= BlockLength(FirstBody)
    /\ result.value = SubSeq(Gathered(Len(BulkIn)), 1, BlockLength(FirstBody))
C15_IeeeBlock ==
    (BlockRead /\ (op.given <= 0 \/ op.given >= BlockLength(FirstBody))) => ReturnsBlock

(***************************************************************************)
(* C16: no read_raw call, whatever its num, returns normally while part of *)
(* the response message it requested is still unread on bulk-in.           *)
(***************************************************************************)
ReadReturned == Finished("read_raw") /\ result.status = "ok" /\ BulkIn # <<>>
\* the device has sent the transfer that ends its message
MessageConsumed == usb.echo.pos = 0
C16_ReadConsumesAll == ReadReturned => MessageConsumed
\* C16, amended: a read_raw call on a session without quirks returns
\* normally only after the transfer that ends the message, or, called with num > 0,
\* after it has received at least num bytes
C16_ReadConsumesOrCounts ==
    ReadReturned => (MessageConsumed \/ (op.given > 0 /\ Len(result.value) >= op.given))
C16_Witness ==
    /\ ReadReturned
    /\ op.given <= 0
    /\ Len(BulkIn) >= 2
    /\ Len(BulkOut) = Len(BulkIn)
    /\ MessageConsumed

(***************************************************************************)
(* C17: open binds bulk_in_ep, bulk_out_ep and interrupt_in_ep to the      *)
(* first bulk-IN, bulk-OUT and interrupt-IN endpoint of the selected       *)
(* interface in descriptor order, and fails with "Invalid endpoint         *)
(* configuration" exactly when a bulk-IN or a bulk-OUT endpoint is         *)
(* missing.                                                                *)
(***************************************************************************)
SelectedEps == usb.dev.cfgs[self.cfg].ifaces[self.iface].eps
OfKind(t, d) == {i \in 1..Len(SelectedEps) : SelectedEps[i].type = t /\ SelectedEps[i].dir = d}
FirstOf(t, d) == IF OfKind(t, d) = {} THEN 0 ELSE SelectedEps[Min(OfKind(t, d))].bEndpointAddress
LastOf(t, d) == IF OfKind(t, d) = {} THEN 0 ELSE SelectedEps[Max(OfKind(t, d))].bEndpointAddress
BulkMissing == OfKind("bulk", "in") = {} \/ OfKind("bulk", "out") = {}
InvalidEndpoints == Finished("open") /\ result.origin = "Invalid endpoint configuration"
\* the call went as far as the search of the endpoints
Claimed == wire # <<>> /\ wire[Len(wire)].kind = "claim" /\ wire[Len(wire)].err = 0
FailsWhenMissing ==
    /\ InvalidEndpoints => BulkMissing
    /\ self.connected => ~BulkMissing
    /\ (Finished("open") /\ self.iface # 0 /\ Claimed /\ BulkMissing) => InvalidEndpoints
C17_FirstEndpoint ==
    /\ self.connected =>
          /\ self.bulk_in_ep = FirstOf("bulk", "in")
          /\ self.bulk_out_ep = FirstOf("bulk", "out")
          /\ self.interrupt_in_ep = FirstOf("intr", "in")
    /\ FailsWhenMissing
\* C17, amended: open binds each attribute to the last endpoint of its kind
\* in descriptor order; the failure is as stated
C17_LastEndpoint ==
    /\ self.connected =>
          /\ self.bulk_in_ep = LastOf("bulk", "in")
          /\ self.bulk_out_ep = LastOf("bulk", "out")
          /\ self.interrupt_in_ep = LastOf("intr", "in")
    /\ FailsWhenMissing
C17_Witness ==
    /\ Finished("open")
    /\ result.status = "ok"
    /\ Cardinality(OfKind("bulk", "in")) > 1
    /\ self.bulk_in_ep = LastOf("bulk", "in")
    /\ self.bulk_in_ep # FirstOf("bulk", "in")

(***************************************************************************)
(* C18: open selects the first interface of the device, over all its       *)
(* configurations in order, whose class/subclass is 0xFE/3 (for the        *)
(* Advantest vendor id, the first interface), and fails with "Not a USBTMC *)
(* device" only when the device has no such interface in any               *)
(* configuration.                                                          *)
(***************************************************************************)
Matches(c, i) == IsTmc(usb.dev.cfgs[c].ifaces[i]) \/ usb.dev.idVendor = ADVANTEST_VID
Before(c1, i1, c2, i2) == c1 < c2 \/ (c1 = c2 /\ i1 < i2)
NoInterface ==
    \A c \in 1..Len(usb.dev.cfgs) : \A i \in 1..Len(usb.dev.cfgs[c].ifaces) : ~Matches(c, i)
C18_FirstInterface ==
    /\ self.connected =>
          /\ Matches(self.cfg, self.iface)
          /\ \A c \in 1..Len(usb.dev.cfgs) : \A i \in 1..Len(usb.dev.cfgs[c].ifaces) :
                Before(c, i, self.cfg, self.iface) => ~Matches(c, i)
    /\ (Finished("open") /\ result.origin = "Not a USBTMC device") => NoInterface

(***************************************************************************)
(* C19: for every decimal vendor and product id and every printable serial *)
(* string, formatting the triple as list_resources does and parsing the    *)
(* result as the constructor does yields the same triple.                  *)
(***************************************************************************)
Parsed == pc = "idle" /\ result.op = "__init__"
RoundTrip == result.value = <<op.idVendor, op.idProduct, op.iSerial>>
\* stated for the serial strings of at least one character
C19_VisaRoundTripAll == (Parsed /\ op.iSerial # <<>>) => RoundTrip
\* C19, amended: the same for the serial strings the grammar can carry,
\* those that are not empty and hold no whitespace and no colon, and for a
\* missing serial number
C19_VisaRoundTrip ==
    (Parsed /\ (op.iSerial = NoSerial \/ IsField(op.iSerial))) => RoundTrip
C19_Witness ==
    /\ Parsed
    /\ IsField(op.iSerial)
    /\ Len(op.iSerial) = MaxSerial
    /\ op.idVendor >= 10
    /\ op.idVendor # op.idProduct
    /\ RoundTrip

(***************************************************************************)
(* C20: every buffer written to the bulk-out endpoint, by write_raw,       *)
(* read_raw or trigger, has a length that is a multiple of 4; in a         *)
(* write_raw chunk the bytes after the TransferSize bytes of the body are  *)
(* fewer than 4 and all zero.                                              *)
(***************************************************************************)
ZeroPadded(d) ==
    LET pad == Len(d) - USBTMC_HEADER_SIZE - HdrSize(d)
    IN /\ pad \in 0..3
       /\ \A i \in 1..pad : d[USBTMC_HEADER_SIZE + HdrSize(d) + i] = 0
C20_BulkOutAligned ==
    \A i \in 1..Len(BulkOut) :
        /\ Len(BulkOut[i].data) % 4 = 0
        /\ IsMsgOut(BulkOut[i]) => ZeroPadded(BulkOut[i].data)
C20_Witness ==
    /\ Finished("trigger")
    /\ result.status = "ok"
    /\ \E i \in 1..Len(BulkOut) :
          /\ IsMsgOut(BulkOut[i])
          /\ HdrSize(BulkOut[i].data) % 4 # 0
          /\ Len(BulkOut[i].data) = USBTMC_HEADER_SIZE + 4

(***************************************************************************)
(* C21: on the default read path with num <= 0, read_raw takes a bulk-IN   *)
(* transfer as the end of the message iff bit 0 of its TransferAttributes  *)
(* is set and its body has at least TransferSize bytes: it returns after   *)
(* such a transfer, and after any other one, also one with EOM set and a   *)
(* body shorter than TransferSize, it appends the body and sends a further *)
(* REQUEST_DEV_DEP_MSG_IN.                                                 *)
(***************************************************************************)
DefaultRead ==
    /\ op.name = "read_raw"
    /\ op.given <= 0
    /\ ~self.rigol_quirk
    /\ ~self.advantest_quirk
EomSet(d) == d[9] % 2 = 1
Complete(d) == Len(d) - USBTMC_HEADER_SIZE >= HdrSize(d)
\* what a transfer carries of the body its header declares
BodyIn(d) == Slice(d, USBTMC_HEADER_SIZE, USBTMC_HEADER_SIZE + HdrSize(d))
IsRequestIn(e) == e.kind = "bulk_out" /\ e.data[1] = USBTMC_MSGID_DEV_DEP_MSG_IN
\* the bodies of the transfers wire[1..k] received, one after the other
RECURSIVE Bodies(_)
Bodies(k) ==
    IF k = 0 THEN <<>>
    ELSE Bodies(k - 1) \o (IF wire[k].kind = "bulk_in" /\ wire[k].err = 0
                           THEN BodyIn(wire[k].data) ELSE <<>>)
C21_EomNeedsFullBody ==
    DefaultRead =>
        \A i \in 1..Len(wire) :
            (wire[i].kind = "bulk_in" /\ wire[i].err = 0) =>
                IF EomSet(wire[i].data) /\ Complete(wire[i].data)
                THEN /\ i = Len(wire)
                     /\ Finished("read_raw")
                     /\ result.status = "ok"
                     /\ result.value = Bodies(i)
                ELSE \/ (i = Len(wire) /\ pc = "read_loop" /\ op.read_data = Bodies(i))
                     \/ (i < Len(wire) /\ IsRequestIn(wire[i + 1]))
C21_Witness ==
    /\ DefaultRead
    /\ Finished("read_raw")
    /\ result.status = "ok"
    /\ \E i \in 1..(Len(wire) - 1) :
          /\ wire[i].kind = "bulk_in"
          /\ EomSet(wire[i].data)
          /\ ~Complete(wire[i].data)
          /\ BodyIn(wire[i].data) # <<>>
          /\ IsRequestIn(wire[i + 1])

(***************************************************************************)
(* C22: clear sends INITIATE_CLEAR once; if its status is SUCCESS it polls *)
(* CHECK_CLEAR_STATUS at least once and until the status is not PENDING,   *)
(* and only after the last poll issues exactly one clear-halt on bulk-out; *)
(* if the status is not SUCCESS it raises "Clear failed" with no poll and  *)
(* no clear-halt.  Stated for clear on a connected session; a transfer     *)
(* that raises ends the sequence where it is.                              *)
(***************************************************************************)
ClearDone ==
    /\ Finished("clear")
    /\ wire # <<>>
    /\ IsCtrl(wire[1], USBTMC_REQUEST_INITIATE_CLEAR)
C22_ClearSequence ==
    ClearDone =>
        LET n == Len(wire)
            polls == {j \in 1..n : IsCtrl(wire[j], USBTMC_REQUEST_CHECK_CLEAR_STATUS)}
            m == 1 + Cardinality(polls)
        IN /\ \A j \in 2..n : ~IsCtrl(wire[j], USBTMC_REQUEST_INITIATE_CLEAR)
           /\ IF wire[1].err # 0
              THEN n = 1 /\ result.status = "USBError"
              ELSE IF wire[1].st # USBTMC_STATUS_SUCCESS
              THEN n = 1 /\ result.status = "UsbtmcException" /\ result.origin = "Clear failed"
              ELSE /\ m >= 2
                   /\ PollLoop(wire, 2, m, USBTMC_REQUEST_CHECK_CLEAR_STATUS)
                   /\ IF wire[m].err # 0
                      THEN n = m /\ result.status = "USBError"
                      ELSE /\ n = m + 1
                           /\ wire[n].kind = "clear_halt"
                           /\ wire[n].idx = self.bulk_out_ep
                           /\ result.status = IF wire[n].err = 0 THEN "ok" ELSE "USBError"
C22_Witness ==
    /\ ClearDone
    /\ result.status = "ok"
    /\ Len(wire) >= 4
    /\ wire[Len(wire)].kind = "clear_halt"
    /\ wire[Len(wire) - 1].st = USBTMC_STATUS_FAILED

(***************************************************************************)
(* C23: with rigol_quirk set, one read_raw call sends the                  *)
(* REQUEST_DEV_DEP_MSG_IN header only once, before the first bulk-IN read, *)
(* whatever the device answers, also a first packet with an empty body;    *)
(* the later packets are read without a new request and appended raw.      *)
(***************************************************************************)
RigolRead == op.name = "read_raw" /\ self.rigol_quirk
C23_RigolRequestsOnce ==
    RigolRead =>
        /\ Len(BulkOut) <= 1
        /\ \A i \in 1..Len(wire) :
              wire[i].kind = "bulk_in" => \E j \in 1..(i - 1) : IsRequestIn(wire[j])
        /\ (Finished("read_raw") /\ result.status = "ok" /\ BulkIn # <<>>) =>
              \E k \in 0..Len(Gathered(Len(BulkIn))) :
                  result.value = SubSeq(Gathered(Len(BulkIn)), 1, k)

(***************************************************************************)
(* C24: the bTag counter is shared by all bulk-OUT message kinds and       *)
(* survives failures, close and re-open: every bulk-OUT header the session *)
(* sends carries (bTag of the header sent before mod 255) + 1, the first   *)
(* one after construction 1, and open, close, clear, get_capabilities and  *)
(* read_stb never change last_btag.                                        *)
(***************************************************************************)
\* a step that sends bulk-OUT buffers sends one, with the next bTag, and
\* last_btag changes in no other step
TagsRotate ==
    /\ \A i \in (Len(wire) + 1)..Len(wire') :
          wire'[i].kind = "bulk_out" =>
              /\ Len(wire') = Len(wire) + 1
              /\ wire'[i].data[2] = (self.last_btag % 255) + 1
              /\ wire'[i].data[3] = NotBits(wire'[i].data[2], 8)
              /\ self'.last_btag = wire'[i].data[2]
    /\ self'.last_btag # self.last_btag =>
          /\ Len(wire') = Len(wire) + 1
          /\ wire'[Len(wire')].kind = "bulk_out"
KeepsTag(names) == op'.name \in names => self'.last_btag = self.last_btag
C24_SharedBtagAll ==
    /\ self.last_btag = 0
    /\ [][/\ TagsRotate
          /\ KeepsTag({"open", "close", "clear", "get_capabilities", "read_stb"})]_vars
\* C24, amended: as stated, but read_stb keeps last_btag only on a USB488
\* interface; on another one it sends "*STB?" and reads the answer, and the
\* two headers take the next two bTags
C24_SharedBtag ==
    /\ self.last_btag = 0
    /\ [][/\ TagsRotate
          /\ KeepsTag({"open", "close", "clear", "get_capabilities"})
          /\ (op'.name = "read_stb" /\ self'.connected /\ is_usb488(self')) =>
                self'.last_btag = self.last_btag]_vars
C24_Witness ==
    /\ Finished("trigger")
    /\ result.status = "ok"
    /\ hist.calls = MaxCalls
    /\ BulkOut # <<>>
    /\ BulkOut[1].data[1] = USB488_MSGID_TRIGGER
    /\ BulkOut[1].data[2] >= 2
    /\ \E i \in 1..Len(wire) : wire[i].kind = "claim"

(***************************************************************************)
(* C25: the wValue of INITIATE_ABORT_BULK_OUT and INITIATE_ABORT_BULK_IN   *)
(* is the bTag of the last bulk-OUT header the session transmitted: in     *)
(* write_raw that of the chunk whose write timed out, in read_raw that of  *)
(* the last REQUEST_DEV_DEP_MSG_IN, also with the Rigol quirk; and a       *)
(* timeout of a bulk transfer of read_raw starts the bulk-IN abort, also   *)
(* when it is the write of the request that timed out.                     *)
(***************************************************************************)
IsInitiateAbort(e) ==
    \/ IsCtrl(e, USBTMC_REQUEST_INITIATE_ABORT_BULK_OUT)
    \/ IsCtrl(e, USBTMC_REQUEST_INITIATE_ABORT_BULK_IN)
\* the index of the last bulk-OUT transfer among wire[1..i], 0 if none
LastBulkOut(i) == Max({j \in 1..i : wire[j].kind = "bulk_out"} \cup {0})
C25_AbortNamesLastTag ==
    /\ \A i \in 1..Len(wire) :
          IsInitiateAbort(wire[i]) =>
              /\ i > 1
              /\ TimedOut(wire[i - 1])
              /\ LastBulkOut(i) # 0
              /\ wire[i].val = HdrTag(wire[LastBulkOut(i)].data)
              /\ op.name = "write_raw" =>
                    /\ IsCtrl(wire[i], USBTMC_REQUEST_INITIATE_ABORT_BULK_OUT)
                    /\ LastBulkOut(i) = i - 1
              /\ op.name = "read_raw" =>
                    /\ IsCtrl(wire[i], USBTMC_REQUEST_INITIATE_ABORT_BULK_IN)
                    /\ IsRequestIn(wire[LastBulkOut(i)])
    /\ \A i \in 1..Len(wire) :
          (TimedOut(wire[i]) /\ op.name = "read_raw") =>
              IF i = Len(wire) THEN pc = "abort_bulk_in"
              ELSE IsCtrl(wire[i + 1], USBTMC_REQUEST_INITIATE_ABORT_BULK_IN)
C25_Witness ==
    /\ self.rigol_quirk
    /\ Finished("read_raw")
    /\ \E i \in 4..Len(wire) :
          /\ IsCtrl(wire[i], USBTMC_REQUEST_INITIATE_ABORT_BULK_IN)
          /\ wire[i - 1].kind = "bulk_in"
          /\ wire[i - 2].kind = "bulk_in"
          /\ wire[i].val = HdrTag(wire[i - 3].data)
          /\ wire[i].val >= 2

(***************************************************************************)
(* C26: every unlock transfer (wValue 0) that ask or ask_raw issues is     *)
(* preceded, within the same call and before the call's bulk-OUT write, by *)
(* a lock transfer (wValue 1), also when the call is the first operation   *)
(* on an Advantest session not yet opened.                                 *)
(***************************************************************************)
C26_UnlockAfterLock ==
    op.name \in {"ask", "ask_raw"} =>
        \A i \in 1..Len(wire) :
            IsLock(wire[i], 0) =>
                \E j \in 1..(i - 1) :
                    /\ IsLock(wire[j], 1)
                    /\ \A k \in 1..j : wire[k].kind # "bulk_out"


(***************************************************************************)
(* C27: when open fails after it has detached kernel drivers (invalid      *)
(* endpoint configuration, failed CLEAR, failed capability probe), the     *)
(* next close still attempts to reattach every interface that open         *)
(* recorded in the reattach list.  A close that made no USB operation      *)
(* found the session unconnected; the claim requires that no recorded      *)
(* interface is left for it to skip.                                       *)
(***************************************************************************)
C27_FailedOpenReattach ==
    (Finished("close") /\ wire = <<>>) => self.reattach = <<>>


(***************************************************************************)
(* C28: for num > 0, in every quirk mode, read_raw(num) keeps a count of   *)
(* the bytes that remain, reduced in each pass by exactly the bytes the    *)
(* pass appended to the result; every REQUEST_DEV_DEP_MSG_IN declares      *)
(* TransferSize = min(max_transfer_size, remaining); and when every        *)
(* response body is no longer than the TransferSize requested the call     *)
(* returns at most num bytes.                                              *)
(***************************************************************************)
CountedRead == op.name = "read_raw" /\ op.given > 0
\* the message bytes of the packet wire[i]: a Rigol packet that follows
\* another packet of the call has no header
Headerless(i) == self.rigol_quirk /\ i > 1 /\ wire[i - 1].kind = "bulk_in"
BodyLen(i) ==
    IF Headerless(i) THEN Len(wire[i].data) ELSE Len(wire[i].data) - USBTMC_HEADER_SIZE
BodiesFit ==
    \A i \in 1..Len(wire) :
        (wire[i].kind = "bulk_in" /\ wire[i].err = 0) =>
            BodyLen(i) <= HdrSize(wire[LastBulkOut(i)].data)
\* the count of the bytes that remain, between two passes
\* and when the call returns (the Advantest break leaves before the count)
C28_CountExact ==
    /\ (CountedRead /\ pc = "read_loop") => op.num = op.given - Len(op.read_data)
    /\ (CountedRead /\ Finished("read_raw") /\ result.status = "ok" /\ ~self.advantest_quirk) =>
           op.num = op.given - Len(result.value)
\* the TransferSize of the request the next pass sends
C28_RequestSize ==
    (CountedRead /\ pc = "read_loop" /\ Requested) =>
        op.read_len = Min({self.max_transfer_size, op.num})
\* the bytes returned
C28_AtMostNum ==
    (CountedRead /\ Finished("read_raw") /\ result.status = "ok" /\ BodiesFit) =>
        Len(result.value) <= op.given
C28_ReadCountsDown ==
    /\ C28_CountExact
    /\ C28_RequestSize
    /\ C28_AtMostNum


(***************************************************************************)
(* C29: after every successful get_capabilities on a USB488 device the     *)
(* USB488 flags are copies of the USBTMC interface-capability bits of      *)
(* reply byte 4: support_trigger = support_DT = support_listen_only,       *)
(* support_remote_local = support_RL = support_talk_only, and              *)
(* support_USB4882 = support_SR = support_pulse.  On a device without      *)
(* USB488 all USB488 flags stay false, and a probe whose first reply byte  *)
(* is not SUCCESS raises and leaves every capability flag unchanged.       *)
(***************************************************************************)
Usb488Flags(s) ==
    <<s.support_USB4882, s.support_remote_local, s.support_trigger, s.support_scpi,
      s.support_SR, s.support_RL, s.support_DT>>
CapabilityFlags(s) ==
    <<s.support_pulse, s.support_talk_only, s.support_listen_only, s.support_term_char>>
        \o Usb488Flags(s)
\* the device's interface speaks USB488
DevIs488 == \E c \in 1..Len(usb.dev.cfgs) : \E i \in 1..Len(usb.dev.cfgs[c].ifaces) :
                usb.dev.cfgs[c].ifaces[i].bInterfaceProtocol = USB488_bInterfaceProtocol
\* a probe has just succeeded, on its own or as the last step of open
Probed ==
    /\ Finished("get_capabilities") \/ Finished("open")
    /\ result.status = "ok"
    /\ wire # <<>>
    /\ wire[Len(wire)].req = USBTMC_REQUEST_GET_CAPABILITIES
\* the step is a probe that raises
ProbeRaises ==
    /\ pc \in {"open_caps", "get_capabilities"}
    /\ pc' = "idle"
    /\ result'.status # "ok"
FlagsCopied ==
    /\ (Probed /\ DevIs488) =>
          /\ self.support_listen_only = Bit(usb.dev.caps4, 1)
          /\ self.support_talk_only = Bit(usb.dev.caps4, 2)
          /\ self.support_pulse = Bit(usb.dev.caps4, 4)
          /\ self.support_trigger = self.support_listen_only
          /\ self.support_DT = self.support_listen_only
          /\ self.support_remote_local = self.support_talk_only
          /\ self.support_RL = self.support_talk_only
          /\ self.support_USB4882 = self.support_pulse
          /\ self.support_SR = self.support_pulse
    /\ ~DevIs488 => \A k \in 1..Len(Usb488Flags(self)) : ~Usb488Flags(self)[k]
C29_Usb488FlagsCopyByte4 ==
    /\ []FlagsCopied
    /\ [][ProbeRaises => CapabilityFlags(self') = CapabilityFlags(self)]_vars

\* a probe succeeded on a USB488 device that is listen-only capable but
\* neither talk-only nor pulse capable, and a later probe was refused
C29_Witness ==
    /\ DevIs488
    /\ usb.dev.caps4 = 1
    /\ Finished("get_capabilities")
    /\ result.status = "UsbtmcException"
    /\ self.support_trigger
    /\ ~self.support_remote_local
    /\ ~self.support_USB4882


(***************************************************************************)
(* C30: no public I/O operation (write_raw, read_raw, read_stb, trigger,   *)
(* clear, pulse, get_capabilities, lock, unlock) issues a bulk, interrupt  *)
(* or control transfer on a session whose connected flag is false: each    *)
(* one first runs open, so that a closed session is opened again           *)
(* (interface claimed, CLEAR and GET_CAPABILITIES repeated) by the next     *)
(* operation; open on a connected session performs no USB operation.       *)
(***************************************************************************)
IoOperations ==
    {"write_raw", "read_raw", "read_stb", "trigger", "clear", "pulse", "get_capabilities",
     "lock", "unlock"}
IsTransfer(e) == e.kind \in {"bulk_out", "bulk_in", "intr_in", "ctrl", "clear_halt", "drain"}
IsClearStep(e) ==
    \/ e.kind = "clear_halt"
    \/ e.kind = "ctrl" /\ e.req \in {USBTMC_REQUEST_INITIATE_CLEAR, USBTMC_REQUEST_CHECK_CLEAR_STATUS}
IsProbe(e) == e.kind = "ctrl" /\ e.req = USBTMC_REQUEST_GET_CAPABILITIES
Claims == {j \in 1..Len(wire) : wire[j].kind = "claim"}
\* the transfers of a call that opened the session come after the claim, and
\* they are CLEAR, then GET_CAPABILITIES, then those of the operation
OpensFirst ==
    \A j \in Claims :
        LET probes == {g \in (j + 1)..Len(wire) : IsProbe(wire[g])}
            g == IF probes = {} THEN Len(wire) + 1 ELSE Min(probes)
        IN /\ \A i \in 1..(j - 1) : ~IsTransfer(wire[i])
           /\ j < Len(wire) =>
                 wire[j + 1].kind = "ctrl" /\ wire[j + 1].req = USBTMC_REQUEST_INITIATE_CLEAR
           /\ \A i \in (j + 1)..(g - 1) : IsClearStep(wire[i])
           /\ (Finished(op.name) /\ result.status = "ok") =>
                 /\ g <= Len(wire)
                 /\ Succeeded(wire[g])
\* a step sends transfers only on a connected session
ConnectedTransfers ==
    pc # "idle" =>
        \A i \in (Len(wire) + 1)..Len(wire') : IsTransfer(wire'[i]) => self.connected
\* an operation that starts on an unconnected session starts with open
StartsWithOpen ==
    (pc = "idle" /\ pc' # "idle" /\ ~self.connected) =>
        /\ op'.name \in IoOperations \cup {"open"}
        /\ pc' = "open"
\* open on a connected session
OpenConnected ==
    (pc = "open" /\ self.connected) => (wire' = wire /\ self' = self /\ usb' = usb)
==============================================================================
